---- MODULE Spec2Model ----
(***************************************************************************)
(* KYP credit-analysis pipeline: Extractor/Validator -> Ratio Engine ->     *)
(* Decision/Report Assembler (src/kyp_agent/tools).                         *)
(*                                                                          *)
(* Number conventions (Python floats are modelled by exact integers):       *)
(*   money            integers (currency units)                             *)
(*   "e4" ratios      a value rounded to 4 decimals, times 10^4             *)
(*   "e2" ratios      a value rounded to 2 decimals, times 10^2             *)
(*   risk score       tenths of a point      (7.0 is 70)                    *)
(*   health score     hundredths of a point  (8.0 is 800)                   *)
(*   unrounded a/b    the rational [num |-> a, den |-> b], den > 0          *)
(* Python dicts are functions whose DOMAIN is the set of keys present.      *)
(* A Python exception leaving a block is the record [raised |-> <type>].    *)
(* A message is a sequence of strings: its fixed text, then the texts       *)
(* interpolated into it.  Accented letters are written unaccented.          *)
(***************************************************************************)
EXTENDS Integers, Sequences, FiniteSets, TLC

\* entry: the first tool this run calls; stage: the last agent that has run;
\* first_run: the results of an earlier run on the same input, once it is repeated
VARIABLES entry, stage, duplicata_json, credit_analysis, financial_ratios, final_report,
          first_run

vars ==
    <<entry, stage, duplicata_json, credit_analysis, financial_ratios, final_report, first_run>>

(***************************************************************************)
(* Bounds of the model                                                      *)
(***************************************************************************)
\* largest balance-sheet amount drawn for an input (amounts are -1..MaxAmount)
MaxAmount == 5
\* longest payment history drawn for an input
MaxOps == 10

(***************************************************************************)
(* Python values                                                            *)
(***************************************************************************)
\* the empty dict {}
EmptyDict == [k \in {} |-> 0]
\* None (JSON null)
None == [pytype |-> "NoneType"]
\* a value that is not a dict (a str passed where a dict is expected)
NotADict == [pytype |-> "str"]
\* nothing computed yet (a stage that has not run)
NotRun == [pytype |-> "unset"]

IsDict(x) == "pytype" \notin DOMAIN x
IsNone(x) == x = None

\* d.get(key, default)
Get(d, key, default) == IF key \in DOMAIN d THEN d[key] ELSE default
\* the dict d cut down to the keys in S
Restrict(d, S) == [k \in S |-> d[k]]

\* an exception of type exc (with its str() text) leaving a block
Raise(exc, text) == [raised |-> exc, text |-> text]
IsRaised(r) == "raised" \in DOMAIN r

\* all(k in d for k in keys)
AllIn(d, keys) == \A i \in 1..Len(keys) : keys[i] \in DOMAIN d
\* [k for k in keys if k not in d]
MissingKeys(d, keys) == SelectSeq(keys, LAMBDA k : k \notin DOMAIN d)

\* unrounded quotient a / b (b > 0) and the float constants compared with it
Rat(a, b) == [num |-> a, den |-> b]
RatLt(r, n, d) == r.num * d < n * r.den
RatGe(r, n, d) == r.num * d >= n * r.den

\* round(n / d, digits) with scale = 10^digits, d > 0: round half to even, as
\* Python rounds.  No exact tie occurs for |d| < 32 at 4 digits.
RoundDiv(n, d, scale) ==
    LET q == (n * scale) \div d
        r == (n * scale) % d
    IN  IF 2 * r > d THEN q + 1
        ELSE IF 2 * r = d THEN q + (q % 2)
        ELSE q

Min(a, b) == IF a <= b THEN a ELSE b
Max(a, b) == IF a >= b THEN a ELSE b

(***************************************************************************)
(* Extractor/Validator: credit_analyzer_tool.py                             *)
(***************************************************************************)
Digits == {"0", "1", "2", "3", "4", "5", "6", "7", "8", "9"}
Separators == {".", "/", "-"}

\* empresa['cnpj'].replace('.', '').replace('/', '').replace('-', '')
NormalizeCnpj(s) == SelectSeq(s, LAMBDA c : c \notin Separators)
\* str.isdigit(): non-empty and every character a digit
IsDigit(s) == Len(s) > 0 /\ \A i \in 1..Len(s) : s[i] \in Digits
\* len(cnpj) != 14 or not cnpj.isdigit()
CnpjInvalid(raw) == Len(NormalizeCnpj(raw)) # 14 \/ ~IsDigit(NormalizeCnpj(raw))

IsLeapYear(y) == (y % 4 = 0 /\ y % 100 # 0) \/ y % 400 = 0
DaysInMonth(y, m) ==
    IF m \in {4, 6, 9, 11} THEN 30
    ELSE IF m = 2 THEN (IF IsLeapYear(y) THEN 29 ELSE 28)
    ELSE 31
\* datetime.fromisoformat(v): "ok", or the exception it raises.  A date string
\* is [iso |-> laid out as YYYY-MM-DD, y, m, d]; None raises TypeError.
FromIsoFormat(v) ==
    IF IsNone(v) THEN "TypeError"
    ELSE IF ~v.iso THEN "ValueError"
    ELSE IF v.y \in 1..9999 /\ v.m \in 1..12 /\ v.d \in 1..DaysInMonth(v.y, v.m)
         THEN "ok"
    ELSE "ValueError"

ErrorResult(kind, message) == [status |-> "error", error |-> kind, message |-> message]

required_sections == <<"empresa", "duplicata", "financeiro">>
empresa_fields == <<"cnpj", "razao_social", "setor">>
duplicata_fields == <<"valor", "vencimento">>
balanco_fields ==
    <<"ativo_circulante", "ativo_nao_circulante", "passivo_circulante",
      "passivo_nao_circulante", "patrimonio_liquido">>
dre_fields ==
    <<"receita_bruta", "receita_liquida", "lucro_bruto", "lucro_operacional",
      "lucro_liquido", "ebitda">>

SeqToSet(s) == {s[i] : i \in 1..Len(s)}

RECURSIVE SumValor(_)
\* sum(op.get('valor', 0) for op in historico)
SumValor(h) == IF h = <<>> THEN 0 ELSE Get(Head(h), "valor", 0) + SumValor(Tail(h))

\* balanco_data: the five inputs with default 0.0, then the two derived totals
BalancoData(balanco) ==
    LET base == [k \in SeqToSet(balanco_fields) |-> Get(balanco, k, 0)]
    IN  [k \in SeqToSet(balanco_fields) \cup {"ativo_total", "passivo_total"} |->
            IF k = "ativo_total"
            THEN base["ativo_circulante"] + base["ativo_nao_circulante"]
            ELSE IF k = "passivo_total"
            THEN base["passivo_circulante"] + base["passivo_nao_circulante"]
            ELSE base[k]]

DreData(dre) == [k \in SeqToSet(dre_fields) |-> Get(dre, k, 0)]

\* MissingFields without the "field not in section" test: every zero is listed
MissingFields_EveryZero(balanco, dre) ==
    LET mb == SelectSeq(balanco_fields, LAMBDA f : Get(balanco, f, 0) = 0)
        md == SelectSeq(dre_fields, LAMBDA f : Get(dre, f, 0) = 0)
    IN  [i \in 1..Len(mb) |-> <<"balanco", mb[i]>>] \o
        [i \in 1..Len(md) |-> <<"dre", md[i]>>]

\* missing_fields: balanco fields (never the totals) then dre fields, each
\* listed when its value is 0.0 and the key is not in the input section
MissingFields(balanco, dre) ==
    LET bd == BalancoData(balanco)
        dd == DreData(dre)
        mb == SelectSeq(balanco_fields, LAMBDA f : bd[f] = 0 /\ f \notin DOMAIN balanco)
        md == SelectSeq(dre_fields, LAMBDA f : dd[f] = 0 /\ f \notin DOMAIN dre)
    IN  [i \in 1..Len(mb) |-> <<"balanco", mb[i]>>] \o
        [i \in 1..Len(md) |-> <<"dre", md[i]>>]

HistoricoData(historico) ==
    [total_operacoes |-> Len(historico),
     operacoes_pagas |->
         Len(SelectSeq(historico, LAMBDA op : Get(op, "status", "") = "PAGO")),
     atrasos |-> Len(SelectSeq(historico, LAMBDA op : Get(op, "dias_atraso", 0) > 0)),
     ticket_medio |-> IF historico # <<>>
                      THEN Rat(SumValor(historico), Len(historico))
                      ELSE Rat(0, 1)]

\* LiquidezCorrente with 0 for every balance sheet without current liabilities
LiquidezCorrente_NoSentinel(bd) ==
    IF bd["passivo_circulante"] > 0
    THEN Rat(bd["ativo_circulante"], bd["passivo_circulante"])
    ELSE Rat(0, 1)

\* liquidez_corrente: ativo / passivo, or 0 / the sentinel 999.0 when passivo <= 0
LiquidezCorrente(bd) ==
    IF bd["passivo_circulante"] > 0
    THEN Rat(bd["ativo_circulante"], bd["passivo_circulante"])
    ELSE IF bd["ativo_circulante"] = 0 THEN Rat(0, 1) ELSE Rat(999, 1)

CalculatedRedFlags(liquidez_corrente) ==
    IF RatLt(liquidez_corrente, 1, 1)
    THEN << [severity |-> IF RatLt(liquidez_corrente, 8, 10) THEN "CRITICAL" ELSE "HIGH",
             category |-> "LIQUIDITY",
             description |-> "Liquidez Corrente baixa",
             value |-> liquidez_corrente] >>
    ELSE << >>

\* liquidity component, tenths
LiquidityPoints(liquidez) ==
    IF RatGe(liquidez, 15, 10) THEN 30
    ELSE IF RatGe(liquidez, 1, 1) THEN 20
    ELSE IF RatGe(liquidez, 8, 10) THEN 10
    ELSE 0

\* equity / profit component, tenths
SolvencyPoints(bd, dd) ==
    (IF bd["patrimonio_liquido"] > 0 THEN 15 ELSE 0) +
    (IF dd["lucro_liquido"] > 0 THEN 15 ELSE 0)

\* HistoryPoints with the tiers compared strictly and nothing for an empty history
HistoryPoints_Strict(total_ops, atrasos) ==
    IF total_ops > 0
    THEN IF atrasos = 0 THEN 40
         ELSE IF 10 * atrasos < total_ops THEN 20
         ELSE IF 10 * atrasos < 3 * total_ops THEN 10
         ELSE 0
    ELSE 0

\* payment-history component, tenths (ratio_atraso = atrasos / total_ops)
HistoryPoints(total_ops, atrasos) ==
    IF total_ops > 0
    THEN IF atrasos = 0 THEN 40
         ELSE IF 10 * atrasos <= total_ops THEN 20
         ELSE IF 10 * atrasos <= 3 * total_ops THEN 10
         ELSE 0
    ELSE 20

\* HasCriticalFlags that finds no flag
HasCriticalFlags_Never(flags) == FALSE

HasCriticalFlags(flags) == \E i \in 1..Len(flags) : flags[i].severity = "CRITICAL"

\* CapScore without the critical-flag override
CapScore_NoCap(score, flags) == score

\* score = min(score, 3.5) when a CRITICAL flag exists
CapScore(score, flags) == IF HasCriticalFlags(flags) THEN Min(score, 35) ELSE score

\* RiskLevel with the thresholds compared strictly
RiskLevel_Strict(score) ==
    IF score > 70 THEN "BAIXO" ELSE IF score > 40 THEN "MEDIO" ELSE "ALTO"

\* the level of a score (tenths); "MEDIO" stands for the source's accented text
RiskLevel(score) ==
    IF score >= 70 THEN "BAIXO" ELSE IF score >= 40 THEN "MEDIO" ELSE "ALTO"

\* the unrounded score of the Extractor, tenths
RiskScore(bd, dd, hd, flags) ==
    CapScore(LiquidityPoints(LiquidezCorrente(bd)) + SolvencyPoints(bd, dd)
             + HistoryPoints(hd.total_operacoes, hd.atrasos), flags)

\* the success payload, built from the validated document
ExtractionPayload(data) ==
    LET empresa == data["empresa"]
        duplicata == data["duplicata"]
        financeiro == data["financeiro"]
        balanco == Get(financeiro, "balanco_patrimonial", EmptyDict)
        dre == Get(financeiro, "dre", EmptyDict)
        historico == Get(financeiro, "historico_pagamentos", << >>)
        bd == BalancoData(balanco)
        dd == DreData(dre)
        hd == HistoricoData(historico)
        missing == MissingFields(balanco, dre)
        liq == LiquidezCorrente(bd)
        flags == CalculatedRedFlags(liq)
        score == RiskScore(bd, dd, hd, flags)
    IN  [status |-> "success",
         empresa |-> [cnpj |-> empresa["cnpj"],
                      razao_social |-> empresa["razao_social"],
                      setor |-> empresa["setor"]],
         duplicata |-> [valor |-> duplicata["valor"],
                        vencimento |-> duplicata["vencimento"]],
         balanco |-> bd,
         dre |-> dd,
         historico |-> hd,
         derived_metrics |->
             [capital_giro |-> bd["ativo_circulante"] - bd["passivo_circulante"],
              patrimonio_liquido_tangivel |-> bd["patrimonio_liquido"],
              calculated_red_flags |-> flags,
              liquidez_corrente |-> liq],
         completeness |-> [all_fields_present |-> Len(missing) = 0,
                           missing_fields |-> missing],
         risk_analysis |->
             [score |-> score,
              level |-> RiskLevel(score),
              rationale |-> "Calculated via deterministic policy"]]

\* the try block of extract_financial_data_tool: a result, or an exception
ExtractBody(json) ==
    IF ~json.syntax_ok THEN Raise("JSONDecodeError", "Expecting value")
    ELSE
    LET data == json.data
        missing_sections == MissingKeys(data, required_sections)
    IN
    IF missing_sections # << >>
    THEN [status |-> "error", error |-> "missing_sections",
          message |-> <<"Required sections missing">> \o missing_sections,
          invalid_fields |-> missing_sections]
    ELSE IF ~AllIn(data["empresa"], empresa_fields)
    THEN ErrorResult("incomplete_empresa_data",
                     <<"Empresa section must contain cnpj, razao_social, and setor">>)
    ELSE IF CnpjInvalid(data["empresa"]["cnpj"])
    THEN ErrorResult("invalid_cnpj", <<"CNPJ format invalid">>)
    ELSE IF "vencimento" \notin DOMAIN data["duplicata"]
    THEN Raise("KeyError", "'vencimento'")
    ELSE IF FromIsoFormat(data["duplicata"]["vencimento"]) # "ok"
    THEN ErrorResult("invalid_date_format", <<"Vencimento must be ISO 8601 format (YYYY-MM-DD)">>)
    ELSE IF ~AllIn(data["duplicata"], duplicata_fields)
    THEN ErrorResult("incomplete_duplicata_data",
                     <<"Duplicata section must contain valor and vencimento">>)
    ELSE IF data["duplicata"]["valor"] <= 0
    THEN ErrorResult("invalid_duplicata_value", <<"Duplicata valor must be positive">>)
    ELSE ExtractionPayload(data)

\* ExtractHandlers with only the json.JSONDecodeError clause
ExtractHandlers_JsonOnly(r) ==
    IF IsRaised(r) /\ r.raised = "JSONDecodeError"
    THEN ErrorResult("invalid_json", <<"Failed to parse JSON", r.text>>)
    ELSE r

\* the except clauses of extract_financial_data_tool
ExtractHandlers(r) ==
    IF ~IsRaised(r) THEN r
    ELSE IF r.raised = "JSONDecodeError"
    THEN ErrorResult("invalid_json", <<"Failed to parse JSON", r.text>>)
    ELSE ErrorResult("unexpected_error", <<"Unexpected error during extraction", r.text>>)

extract_financial_data_tool(json) == ExtractHandlers(ExtractBody(json))

(***************************************************************************)
(* Ratio Engine: calculation_tools.py                                       *)
(***************************************************************************)
\* sector thresholds, e4
BENCHMARKS ==
    [liquidity |->
        [current_ratio |-> [excellent |-> 20000, good |-> 15000, adequate |-> 10000],
         quick_ratio |-> [excellent |-> 15000, good |-> 12000, adequate |-> 10000]],
     profitability |->
        [roe |-> [excellent |-> 2000, good |-> 1500, adequate |-> 1000],
         roa |-> [excellent |-> 1000, good |-> 700, adequate |-> 500],
         margin_liquida |-> [excellent |-> 2000, good |-> 1500, adequate |-> 500],
         ebitda_margin |-> [excellent |-> 2500, good |-> 1500, adequate |-> 800]],
     debt |->
        [debt_ratio |-> [excellent |-> 3500, good |-> 5000, adequate |-> 7000],
         equity_multiplier |-> [excellent |-> 17000, good |-> 20000, adequate |-> 25000]]]

\* a value float() rejects: a str that is no number
IsNonNumeric(v) == ToString(v) = ToString(NotADict)

\* _safe_get: the value, or the default when the key is absent or its value is None
_safe_get(d, key, default) ==
    IF key \in DOMAIN d /\ ToString(d[key]) # ToString(None) THEN d[key] ELSE default

\* the ValueError of the first _safe_get, in the order of the calls, whose value
\* float() rejects: "Field <key> must be numeric"; None when there is none
SafeGetError(d, keys) ==
    LET bad == SelectSeq(keys, LAMBDA k : k \in DOMAIN d /\ IsNonNumeric(d[k])) IN
    IF bad = << >> THEN None
    ELSE ErrorResult("invalid_data_type", <<"Field must be numeric", bad[1]>>)

\* _safe_div that cuts the quotient off after 4 decimals instead of rounding it
_safe_div_Truncating(a, b) ==
    IF b = 0 THEN 0
    ELSE IF b > 0 THEN (a * 10000) \div b
    ELSE ((-a) * 10000) \div (-b)

\* _safe_div: 0.0 on a zero denominator, else round(a / b, 4); the result is e4
_safe_div(a, b) ==
    IF b = 0 THEN 0
    ELSE IF b > 0 THEN RoundDiv(a, b, 10000)
    ELSE RoundDiv(-a, -b, 10000)

\* _interpret: thresholds.get(name, float("inf")), so an absent threshold never matches
_interpret(value, thresholds) ==
    IF "excellent" \in DOMAIN thresholds /\ value >= thresholds["excellent"] THEN "Excelente"
    ELSE IF "good" \in DOMAIN thresholds /\ value >= thresholds["good"] THEN "Bom"
    ELSE IF "adequate" \in DOMAIN thresholds /\ value >= thresholds["adequate"] THEN "Adequado"
    ELSE "Abaixo do esperado"

\* _validate_presence that accepts every dict
_validate_presence_Skipped(obj, keys) == None

_validate_presence(obj, keys) ==
    IF MissingKeys(obj, keys) # << >>
    THEN ErrorResult("missing_fields", <<"Missing required fields">> \o MissingKeys(obj, keys))
    ELSE None

\* an alert or strength: its text and the number formatted into it
Note(msg, value) == [msg |-> msg, value |-> value]

RatioResult(ratios, interpretation, alerts, strengths) ==
    [status |-> "success", ratios |-> ratios, interpretation |-> interpretation,
     alerts |-> alerts, strengths |-> strengths]

\* current_ratio of calculate_liquidity_ratios, e4
LiquidityCurrentRatio(ativo_circ, passivo_circ) == _safe_div(ativo_circ, passivo_circ)

calculate_liquidity_ratios(extracted_data) ==
    IF "balanco" \notin DOMAIN extracted_data
    THEN ErrorResult("missing_balanco", <<"balanco not found">>)
    ELSE
    LET bal == extracted_data["balanco"]
        validation == _validate_presence(bal, <<"ativo_circulante", "passivo_circulante">>)
    IN
    IF validation # None THEN validation
    ELSE IF SafeGetError(bal, <<"ativo_circulante", "passivo_circulante">>) # None
    THEN SafeGetError(bal, <<"ativo_circulante", "passivo_circulante">>)
    ELSE
    LET ativo_circ == _safe_get(bal, "ativo_circulante", 0)
        passivo_circ == _safe_get(bal, "passivo_circulante", 0)
    IN
    IF ativo_circ < 0 \/ passivo_circ < 0
    THEN ErrorResult("invalid_values", <<"Assets/liabilities must be non-negative">>)
    ELSE
    LET current_ratio == LiquidityCurrentRatio(ativo_circ, passivo_circ)
        working_capital == ativo_circ - passivo_circ
        ratios == [current_ratio |-> current_ratio,
                   quick_ratio |-> current_ratio,
                   working_capital |-> working_capital]
        interpretation ==
            [current_ratio |-> _interpret(current_ratio, BENCHMARKS.liquidity.current_ratio),
             quick_ratio |-> _interpret(current_ratio, BENCHMARKS.liquidity.quick_ratio),
             working_capital |-> IF working_capital >= 0 THEN "Positivo" ELSE "Negativo"]
        alerts ==
            (IF current_ratio < 10000
             THEN <<Note("Liquidez corrente baixa", current_ratio)>> ELSE << >>) \o
            (IF working_capital < 0
             THEN <<Note("Capital de giro negativo", 0)>> ELSE << >>)
        strengths ==
            IF current_ratio >= BENCHMARKS.liquidity.current_ratio.excellent
            THEN <<Note("Liquidez corrente excelente", current_ratio)>> ELSE << >>
    IN  RatioResult(ratios, interpretation, alerts, strengths)

calculate_profitability_ratios(extracted_data) ==
    IF "dre" \notin DOMAIN extracted_data
    THEN ErrorResult("missing_dre", <<"dre not found">>)
    ELSE IF "balanco" \notin DOMAIN extracted_data
    THEN ErrorResult("missing_balanco", <<"balanco not found">>)
    ELSE IF SafeGetError(extracted_data["dre"],
                         <<"receita_liquida", "lucro_liquido", "lucro_bruto", "ebitda">>) # None
    THEN SafeGetError(extracted_data["dre"],
                      <<"receita_liquida", "lucro_liquido", "lucro_bruto", "ebitda">>)
    ELSE IF SafeGetError(extracted_data["balanco"], <<"ativo_total", "patrimonio_liquido">>) # None
    THEN SafeGetError(extracted_data["balanco"], <<"ativo_total", "patrimonio_liquido">>)
    ELSE
    LET dre == extracted_data["dre"]
        bal == extracted_data["balanco"]
        receita_liq == _safe_get(dre, "receita_liquida", 0)
        lucro_liq == _safe_get(dre, "lucro_liquido", 0)
        lucro_bruto == _safe_get(dre, "lucro_bruto", 0)
        ebitda == _safe_get(dre, "ebitda", 0)
        ativo_total == _safe_get(bal, "ativo_total", 0)
        patrimonio_liq == _safe_get(bal, "patrimonio_liquido", 0)
        ratios ==
            [roe |-> IF patrimonio_liq > 0 THEN _safe_div(lucro_liq, patrimonio_liq) ELSE 0,
             roa |-> IF ativo_total > 0 THEN _safe_div(lucro_liq, ativo_total) ELSE 0,
             margem_bruta |-> IF receita_liq > 0 THEN _safe_div(lucro_bruto, receita_liq) ELSE 0,
             margem_liquida |-> IF receita_liq > 0 THEN _safe_div(lucro_liq, receita_liq) ELSE 0,
             ebitda_margin |-> IF receita_liq > 0 THEN _safe_div(ebitda, receita_liq) ELSE 0]
        interpretation ==
            [roe |-> _interpret(ratios.roe, BENCHMARKS.profitability.roe),
             roa |-> _interpret(ratios.roa, BENCHMARKS.profitability.roa),
             margem_liquida |->
                 _interpret(ratios.margem_liquida, BENCHMARKS.profitability.margin_liquida),
             ebitda_margin |->
                 _interpret(ratios.ebitda_margin, BENCHMARKS.profitability.ebitda_margin)]
        alerts ==
            (IF ratios.roe < 1000 THEN <<Note("ROE baixo", ratios.roe)>> ELSE << >>) \o
            (IF ratios.margem_liquida <= 0
             THEN <<Note("Margem liquida negativa ou zero", 0)>> ELSE << >>)
        strengths ==
            (IF ratios.roe >= 1000 /\ ratios.roe >= BENCHMARKS.profitability.roe.excellent
             THEN <<Note("ROE forte", ratios.roe)>> ELSE << >>) \o
            (IF ratios.ebitda_margin >= BENCHMARKS.profitability.ebitda_margin.excellent
             THEN <<Note("EBITDA margin forte", ratios.ebitda_margin)>> ELSE << >>)
    IN  RatioResult(ratios, interpretation, alerts, strengths)

\* float("inf") inside calculate_debt_ratios, the string "inf" it is reported
\* as, and an ordinary number
FloatInf == [float |-> "inf"]
StrInf == [str |-> "inf"]
Num(v) == [num |-> v]
IsNum(x) == "num" \in DOMAIN x

\* round(x, 2) of an e4 value, as e2
Round2(e4) == RoundDiv(e4, 100, 1)

\* the rounding without the replacement of float("inf")
FormatRatio_Raw(x) == IF IsNum(x) THEN Num(Round2(x.num)) ELSE x

\* (round(x, 2) if x != float("inf") else "inf")
FormatRatio(x) == IF x = FloatInf THEN StrInf ELSE Num(Round2(x.num))

\* debt_to_equity before formatting: FloatInf or Num(e4)
DebtToEquity(passivo_total, patrimonio_liq) ==
    IF patrimonio_liq <= 0
    THEN (IF passivo_total > 0 THEN FloatInf ELSE Num(0))
    ELSE Num(_safe_div(passivo_total, patrimonio_liq))

\* equity_multiplier before formatting: FloatInf or Num(e4)
EquityMultiplier(ativo_total, passivo_total, patrimonio_liq) ==
    IF patrimonio_liq <= 0
    THEN (IF passivo_total > 0 THEN FloatInf ELSE Num(0))
    ELSE Num(_safe_div(ativo_total, patrimonio_liq))

\* interest_coverage before formatting; estimated_interest = passivo_total * 0.10
InterestCoverage(lucro_operacional, passivo_total) ==
    IF passivo_total > 0
    THEN Num(_safe_div(10 * lucro_operacional, passivo_total))
    ELSE (IF lucro_operacional > 0 THEN FloatInf ELSE Num(0))

DebtToEquityInterp(x) ==
    IF x = FloatInf THEN "CRITICO - Patrimonio liquido zero ou negativo"
    ELSE IF x.num > 20000 THEN "Alto - Endividamento elevado em relacao ao patrimonio"
    ELSE IF x.num > 10000 THEN "Moderado - Divida superior ao patrimonio"
    ELSE IF x.num > 5000 THEN "Adequado - Divida controlada"
    ELSE "Excelente - Baixo endividamento"

EquityMultiplierInterp(x) ==
    IF x = FloatInf THEN "CRITICO - Patrimonio liquido zero ou negativo"
    ELSE IF x.num > 30000 THEN "Alto - Alavancagem excessiva"
    ELSE IF x.num > 25000 THEN "Moderado - Alavancagem acima da media"
    ELSE IF x.num > 20000 THEN "Adequado - Alavancagem dentro do esperado"
    ELSE "Excelente - Baixa alavancagem"

InterestCoverageInterp(x) ==
    IF x = FloatInf THEN "Excelente"
    ELSE IF x.num > 50000 THEN "Excelente"
    ELSE IF x.num >= 20000 THEN "Adequado"
    ELSE "Risco"

calculate_debt_ratios(extracted_data) ==
    IF "balanco" \notin DOMAIN extracted_data
    THEN ErrorResult("missing_balanco", <<"balanco not found">>)
    ELSE IF SafeGetError(extracted_data["balanco"],
                         <<"passivo_total", "passivo_circulante", "ativo_total",
                           "patrimonio_liquido">>) # None
    THEN SafeGetError(extracted_data["balanco"],
                      <<"passivo_total", "passivo_circulante", "ativo_total",
                        "patrimonio_liquido">>)
    ELSE IF SafeGetError(Get(extracted_data, "dre", EmptyDict),
                         <<"lucro_liquido", "lucro_operacional">>) # None
    THEN SafeGetError(Get(extracted_data, "dre", EmptyDict),
                      <<"lucro_liquido", "lucro_operacional">>)
    ELSE
    LET bal == extracted_data["balanco"]
        passivo_total == _safe_get(bal, "passivo_total", 0)
        passivo_circ == _safe_get(bal, "passivo_circulante", 0)
        ativo_total == _safe_get(bal, "ativo_total", 0)
        patrimonio_liq == _safe_get(bal, "patrimonio_liquido", 0)
        debt_ratio == IF ativo_total > 0 THEN _safe_div(passivo_total, ativo_total) ELSE 0
        debt_to_equity == DebtToEquity(passivo_total, patrimonio_liq)
        equity_multiplier == EquityMultiplier(ativo_total, passivo_total, patrimonio_liq)
        debt_composition ==
            IF passivo_total > 0 THEN _safe_div(passivo_circ, passivo_total) ELSE 0
        dre == Get(extracted_data, "dre", EmptyDict)
        lucro_operacional ==
            _safe_get(dre, "lucro_operacional", _safe_get(dre, "lucro_liquido", 0))
        interest_coverage == InterestCoverage(lucro_operacional, passivo_total)
        ratios ==
            [debt_ratio |-> debt_ratio,
             debt_to_equity |-> FormatRatio(debt_to_equity),
             equity_multiplier |-> FormatRatio(equity_multiplier),
             debt_composition |-> debt_composition,
             interest_coverage |-> FormatRatio(interest_coverage)]
        interpretation ==
            [debt_ratio |-> _interpret(debt_ratio, BENCHMARKS.debt.debt_ratio),
             debt_to_equity |-> DebtToEquityInterp(debt_to_equity),
             equity_multiplier |-> EquityMultiplierInterp(equity_multiplier),
             debt_composition |-> IF debt_composition > 6000 THEN "Risco de liquidez" ELSE "Normal",
             interest_coverage |-> InterestCoverageInterp(interest_coverage)]
        alerts ==
            (IF equity_multiplier = FloatInf
             THEN <<Note("Patrimonio liquido zero ou negativo - atencao para solvencia", 0)>>
             ELSE IF equity_multiplier.num > BENCHMARKS.debt.equity_multiplier.adequate
             THEN <<Note("Equity multiplier elevado", equity_multiplier.num)>>
             ELSE << >>) \o
            (IF debt_ratio > BENCHMARKS.debt.debt_ratio.adequate
             THEN <<Note("Endividamento elevado", debt_ratio)>> ELSE << >>) \o
            (IF debt_composition > 6000
             THEN <<Note("Concentracao em curto prazo", debt_composition)>> ELSE << >>) \o
            (IF interest_coverage # FloatInf /\ interest_coverage.num < 20000
             THEN <<Note("Baixa cobertura de juros", interest_coverage.num)>> ELSE << >>)
        strengths ==
            (IF debt_ratio > BENCHMARKS.debt.debt_ratio.adequate
             THEN << >>
             ELSE <<Note("Endividamento dentro do esperado para o setor", 0)>>) \o
            (IF interest_coverage = FloatInf \/
                (interest_coverage # FloatInf /\ interest_coverage.num > 50000)
             THEN <<Note("Boa capacidade de cobertura de juros", 0)>> ELSE << >>)
    IN  RatioResult(ratios, interpretation, alerts, strengths)

\* one comparison of compare_with_benchmarks
Comparison(company, thresholds) ==
    [company |-> company, sector_avg |-> Get(thresholds, "good", 0),
     status |-> _interpret(company, thresholds)]

\* the comparisons dict: the profitability references are looked up under the
\* ratio's own key, and BENCHMARKS has no "margem_liquida" (it has margin_liquida)
Comparisons(liquidity, profitability, debt) ==
    [current_ratio |->
        Comparison(liquidity.ratios.current_ratio, BENCHMARKS.liquidity.current_ratio),
     roe |-> Comparison(profitability.ratios.roe, BENCHMARKS.profitability.roe),
     roa |-> Comparison(profitability.ratios.roa, BENCHMARKS.profitability.roa),
     margem_liquida |->
        Comparison(profitability.ratios.margem_liquida,
                   Get(BENCHMARKS.profitability, "margem_liquida", EmptyDict)),
     ebitda_margin |->
        Comparison(profitability.ratios.ebitda_margin, BENCHMARKS.profitability.ebitda_margin),
     debt_to_assets |-> Comparison(debt.ratios.debt_ratio, BENCHMARKS.debt.debt_ratio)]

CountStatus(comparisons, status) ==
    Cardinality({k \in DOMAIN comparisons : comparisons[k].status = status})

\* OverallAssessment with the below-average test made first
OverallAssessment_BelowFirst(excellent_count, below_count) ==
    IF below_count >= 3 THEN "below_average"
    ELSE IF excellent_count >= 3 THEN "above_average"
    ELSE "average"

OverallAssessment(excellent_count, below_count) ==
    IF excellent_count >= 3 THEN "above_average"
    ELSE IF below_count >= 3 THEN "below_average"
    ELSE "average"

compare_with_benchmarks(liquidity, profitability, debt, sector) ==
    IF liquidity.status # "success"
    THEN ErrorResult("invalid_liquidity_data", <<"liquidity data must have status success">>)
    ELSE IF profitability.status # "success"
    THEN ErrorResult("invalid_profitability_data",
                     <<"profitability data must have status success">>)
    ELSE IF debt.status # "success"
    THEN ErrorResult("invalid_debt_data", <<"debt data must have status success">>)
    ELSE
    LET comparisons == Comparisons(liquidity, profitability, debt)
        below_count == CountStatus(comparisons, "Abaixo do esperado")
        excellent_count == CountStatus(comparisons, "Excelente")
        overall == OverallAssessment(excellent_count, below_count)
    IN  [status |-> "success",
         sector |-> sector,
         benchmarks |-> comparisons,
         overall_assessment |-> overall,
         competitive_position |-> <<overall, sector>>,
         metrics_summary |->
            [total_metrics |-> Cardinality(DOMAIN comparisons),
             above_average |-> excellent_count,
             below_average |-> below_count,
             average |-> Cardinality(DOMAIN comparisons) - (excellent_count + below_count)]]

\* Clamp that leaves the value as it is
Clamp_None(x, hi) == x

\* min(max(x, 0), hi)
Clamp(x, hi) == Min(Max(x, 0), hi)

\* DebtScore with each breakpoint in the worse band
DebtScore_Open(dr) == IF dr < 3000 THEN 10 ELSE IF dr < 5000 THEN 8 ELSE IF dr < 7000 THEN 5 ELSE 2

\* debt subscore in points: a step function of debt_ratio (e4)
DebtScore(dr) == IF dr <= 3000 THEN 10 ELSE IF dr <= 5000 THEN 8 ELSE IF dr <= 7000 THEN 5 ELSE 2

\* liq_score = clamp(cr / 2.5 * 10), in units of 10^-4 points
LiqScore(cr) == Clamp(4 * cr, 100000)
\* prof_score = clamp(roe * 10 * 0.6 + margin * 10 * 0.4), in units of 10^-4 points
ProfScore(roe, margin) == Clamp(6 * roe + 4 * margin, 100000)

\* the weighted sum, in units of 10^-5 points
Weighted(cr, roe, margin, dr) ==
    3 * LiqScore(cr) + 4 * ProfScore(roe, margin) + 3 * (DebtScore(dr) * 10000)

\* round(min(max(weighted, 0), 10), 2), as hundredths
HealthScore(cr, roe, margin, dr) ==
    RoundDiv(Clamp(Weighted(cr, roe, margin, dr), 1000000), 1000, 1)

calculate_financial_health_score(liquidity, profitability, debt) ==
    HealthScore(Get(liquidity.ratios, "current_ratio", 0),
                Get(profitability.ratios, "roe", 0),
                Get(profitability.ratios, "margem_liquida", 0),
                Get(debt.ratios, "debt_ratio", 10000))

\* src["alerts"][:1]
FirstAlert(src) == IF Get(src, "alerts", << >>) # << >> THEN <<src.alerts[1]>> ELSE << >>

\* the summary: sentence 1 (score, liquidity), sentence 2 (profitability,
\* competitive position), then the first alert of each ratio set, if any
generate_financial_summary(liquidity, profitability, debt, benchmark, score) ==
    [saude |-> score,
     liquidez |-> Get(liquidity.interpretation, "current_ratio", "N/A"),
     rentabilidade |-> Get(profitability.interpretation, "roe", "N/A"),
     competitive |-> Get(benchmark, "competitive_position", << >>),
     top_alerts |-> FirstAlert(liquidity) \o FirstAlert(profitability) \o FirstAlert(debt)]

StageFailed(kind, sub) == ErrorResult(kind, Get(sub, "message", <<"error">>))

\* extracted_data.get("empresa", {}).get("setor", "Desconhecido"); an empresa
\* that is not a dict has no .get
SectorRaises(extracted_data) == ~IsDict(Get(extracted_data, "empresa", EmptyDict))
Sector(extracted_data) ==
    Get(Get(extracted_data, "empresa", EmptyDict), "setor", "Desconhecido")

\* RatiosBody with the profitability step moved before the liquidity step
RatiosBody_ProfitabilityFirst(extracted_data) ==
    IF ~IsDict(extracted_data)
    THEN ErrorResult("invalid_input", <<"extracted_data must be a dict">>)
    ELSE
    LET profitability == calculate_profitability_ratios(extracted_data) IN
    IF Get(profitability, "status", "") # "success"
    THEN StageFailed("profitability_failed", profitability)
    ELSE
    LET liquidity == calculate_liquidity_ratios(extracted_data) IN
    IF Get(liquidity, "status", "") # "success" THEN StageFailed("liquidity_failed", liquidity)
    ELSE
    LET debt == calculate_debt_ratios(extracted_data) IN
    IF Get(debt, "status", "") # "success" THEN StageFailed("debt_failed", debt)
    ELSE
    IF SectorRaises(extracted_data)
    THEN Raise("AttributeError", "'str' object has no attribute 'get'")
    ELSE
    LET benchmark == compare_with_benchmarks(liquidity, profitability, debt,
                                             Sector(extracted_data))
    IN
    IF Get(benchmark, "status", "") # "success" THEN StageFailed("benchmark_failed", benchmark)
    ELSE
    LET score == calculate_financial_health_score(liquidity, profitability, debt) IN
    [status |-> "success",
     liquidity |-> liquidity,
     profitability |-> profitability,
     debt |-> debt,
     benchmark_comparison |-> benchmark,
     financial_health_score |-> score,
     summary |-> generate_financial_summary(liquidity, profitability, debt, benchmark, score)]

\* the try block of calculate_all_financial_ratios
RatiosBody(extracted_data) ==
    IF ~IsDict(extracted_data)
    THEN ErrorResult("invalid_input", <<"extracted_data must be a dict">>)
    ELSE
    LET liquidity == calculate_liquidity_ratios(extracted_data) IN
    IF Get(liquidity, "status", "") # "success" THEN StageFailed("liquidity_failed", liquidity)
    ELSE
    LET profitability == calculate_profitability_ratios(extracted_data) IN
    IF Get(profitability, "status", "") # "success"
    THEN StageFailed("profitability_failed", profitability)
    ELSE
    LET debt == calculate_debt_ratios(extracted_data) IN
    IF Get(debt, "status", "") # "success" THEN StageFailed("debt_failed", debt)
    ELSE
    IF SectorRaises(extracted_data)
    THEN Raise("AttributeError", "'str' object has no attribute 'get'")
    ELSE
    LET benchmark == compare_with_benchmarks(liquidity, profitability, debt,
                                             Sector(extracted_data))
    IN
    IF Get(benchmark, "status", "") # "success" THEN StageFailed("benchmark_failed", benchmark)
    ELSE
    LET score == calculate_financial_health_score(liquidity, profitability, debt) IN
    [status |-> "success",
     liquidity |-> liquidity,
     profitability |-> profitability,
     debt |-> debt,
     benchmark_comparison |-> benchmark,
     financial_health_score |-> score,
     summary |-> generate_financial_summary(liquidity, profitability, debt, benchmark, score)]

\* except Exception of calculate_all_financial_ratios
RatiosHandlers(r) ==
    IF IsRaised(r) THEN ErrorResult("unexpected_error", <<r.text>>) ELSE r

calculate_all_financial_ratios(extracted_data) == RatiosHandlers(RatiosBody(extracted_data))

(***************************************************************************)
(* Decision/Report Assembler: generate_complete_report.py                   *)
(***************************************************************************)
\* Decision with the first row's risk threshold taken strictly (> 7.0)
Decision_StrictRisk(risk_score, health_score) ==
    IF risk_score > 70 /\ health_score >= 800 THEN "APROVAR"
    ELSE IF risk_score >= 50 /\ health_score >= 600 THEN "APROVAR COM RESSALVAS"
    ELSE IF risk_score >= 40 THEN "REVISAR"
    ELSE "NEGAR"

\* Decision whose REVISAR row also asks for a risk score below 5.0
Decision_ReviewBand(risk_score, health_score) ==
    IF risk_score >= 70 /\ health_score >= 800 THEN "APROVAR"
    ELSE IF risk_score >= 50 /\ health_score >= 600 THEN "APROVAR COM RESSALVAS"
    ELSE IF risk_score >= 40 /\ risk_score < 50 THEN "REVISAR"
    ELSE "NEGAR"

\* the decision matrix, first match wins (risk_score tenths, health_score hundredths)
Decision(risk_score, health_score) ==
    IF risk_score >= 70 /\ health_score >= 800 THEN "APROVAR"
    ELSE IF risk_score >= 50 /\ health_score >= 600 THEN "APROVAR COM RESSALVAS"
    ELSE IF risk_score >= 40 THEN "REVISAR"
    ELSE "NEGAR"

\* taxa_sugerida, prazo_sugerido, garantias, monitoramento of a decision
Terms(decision) ==
    IF decision = "APROVAR"
    THEN [taxa_sugerida |-> "CDI + 2.5% a.a.", prazo_sugerido |-> "180 dias",
          garantias |-> "Duplicata escritural", monitoramento |-> "semestral"]
    ELSE IF decision = "APROVAR COM RESSALVAS"
    THEN [taxa_sugerida |-> "CDI + 4.0% a.a.", prazo_sugerido |-> "120 dias",
          garantias |-> "Duplicata escritural + Aval dos socios",
          monitoramento |-> "trimestral"]
    ELSE IF decision = "REVISAR"
    THEN [taxa_sugerida |-> "A definir apos revisao", prazo_sugerido |-> "A definir",
          garantias |-> "A definir - considerar garantias reais", monitoramento |-> "N/A"]
    ELSE [taxa_sugerida |-> "N/A", prazo_sugerido |-> "N/A", garantias |-> "N/A",
          monitoramento |-> "N/A"]

\* d[k1], d[k2], ... in order: the KeyError of the first key absent, or None
FirstKeyError(d, keys) ==
    IF MissingKeys(d, keys) = << >> THEN None
    ELSE Raise("KeyError", MissingKeys(d, keys)[1])

\* now.isoformat(): the microseconds are left out when they are 0
IsoFormat(now) == [day |-> now.day, microsecond |-> now.microsecond,
                   chars |-> IF now.microsecond = 0 THEN 19 ELSE 26]

\* the subscripts of the report's f-strings, section by section, in order
ReportKeyError(ca, fr) ==
    LET ed == ca["extracted_data"]
        checks ==
            << FirstKeyError(ed["empresa"], <<"razao_social", "cnpj", "setor">>),
               FirstKeyError(ed["duplicata"], <<"valor", "vencimento">>),
               FirstKeyError(ca, <<"preliminary_recommendation">>),
               FirstKeyError(fr["liquidity"], <<"ratios", "interpretation">>),
               FirstKeyError(fr["profitability"], <<"ratios">>),
               FirstKeyError(fr["benchmark_comparison"], <<"benchmarks">>),
               FirstKeyError(fr["debt"], <<"ratios", "interpretation">>),
               FirstKeyError(fr["benchmark_comparison"],
                             <<"sector", "overall_assessment", "competitive_position">>) >>
        raised == SelectSeq(checks, LAMBDA c : c # None)
    IN  IF raised = << >> THEN None ELSE raised[1]

\* the report text, as the values formatted into it
ReportText(ca, fr, decision, now) ==
    LET ed == ca["extracted_data"] IN
    [empresa |-> ed["empresa"],
     duplicata |-> ed["duplicata"],
     data_analise |-> now.day,
     risk_level |-> ca["risk_level"],
     risk_score |-> ca["risk_score"],
     health_score |-> fr["financial_health_score"],
     preliminary_recommendation |-> ca["preliminary_recommendation"],
     summary |-> fr["summary"],
     red_flags |-> Get(ca, "red_flags", << >>),
     positive_points |-> Get(ca, "positive_points", << >>),
     critical_notes |-> Get(ca, "critical_notes", ""),
     liquidity |-> fr["liquidity"],
     profitability |-> fr["profitability"].ratios,
     debt |-> fr["debt"],
     benchmark |-> fr["benchmark_comparison"],
     decision |-> decision,
     terms |-> Terms(decision),
     timestamp |-> IsoFormat(now)]

\* StatusCheck with financial_ratios checked before credit_analysis
StatusCheck_RatiosFirst(ca, fr) ==
    IF ~IsDict(fr) THEN Raise("AttributeError", "'str' object has no attribute 'get'")
    ELSE IF Get(fr, "status", "") # "success"
    THEN ErrorResult("invalid_financial_ratios",
                     <<"financial_ratios must have success status">>)
    ELSE IF ~IsDict(ca) THEN Raise("AttributeError", "'str' object has no attribute 'get'")
    ELSE IF Get(ca, "status", "") # "success"
    THEN ErrorResult("invalid_credit_analysis", <<"credit_analysis must have success status">>)
    ELSE None

\* StatusCheck without the check of financial_ratios
StatusCheck_FirstOnly(ca, fr) ==
    IF ~IsDict(ca) THEN Raise("AttributeError", "'str' object has no attribute 'get'")
    ELSE IF Get(ca, "status", "") # "success"
    THEN ErrorResult("invalid_credit_analysis", <<"credit_analysis must have success status">>)
    ELSE None

\* the two status checks that open generate_complete_report: the error
\* returned, the AttributeError of a .get on a value that is no dict, or None
StatusCheck(ca, fr) ==
    IF ~IsDict(ca) THEN Raise("AttributeError", "'str' object has no attribute 'get'")
    ELSE IF Get(ca, "status", "") # "success"
    THEN ErrorResult("invalid_credit_analysis", <<"credit_analysis must have success status">>)
    ELSE IF ~IsDict(fr) THEN Raise("AttributeError", "'str' object has no attribute 'get'")
    ELSE IF Get(fr, "status", "") # "success"
    THEN ErrorResult("invalid_financial_ratios",
                     <<"financial_ratios must have success status">>)
    ELSE None

\* the try block of generate_complete_report
ReportBody(ca, fr, now) ==
    IF StatusCheck(ca, fr) # None THEN StatusCheck(ca, fr)
    ELSE IF FirstKeyError(ca, <<"extracted_data">>) # None
    THEN FirstKeyError(ca, <<"extracted_data">>)
    ELSE IF FirstKeyError(ca["extracted_data"], <<"empresa", "duplicata">>) # None
    THEN FirstKeyError(ca["extracted_data"], <<"empresa", "duplicata">>)
    ELSE IF FirstKeyError(ca, <<"risk_level", "risk_score">>) # None
    THEN FirstKeyError(ca, <<"risk_level", "risk_score">>)
    ELSE IF FirstKeyError(fr,
                          <<"liquidity", "profitability", "debt", "benchmark_comparison",
                            "financial_health_score", "summary">>) # None
    THEN FirstKeyError(fr,
                       <<"liquidity", "profitability", "debt", "benchmark_comparison",
                         "financial_health_score", "summary">>)
    ELSE IF ReportKeyError(ca, fr) # None
    THEN ReportKeyError(ca, fr)
    ELSE
    LET decision == Decision(ca["risk_score"],
                             fr["financial_health_score"])
        report == ReportText(ca, fr, decision, now)
        ed == ca["extracted_data"]
    IN  [status |-> "success",
         report |-> report,
         final_decision |-> decision,
         metadata |-> [generated_at |-> IsoFormat(now),
                       report_length |-> IsoFormat(now).chars,
                       sections |-> 4,
                       empresa |-> ed["empresa"]["razao_social"],
                       cnpj |-> ed["empresa"]["cnpj"],
                       valor_duplicata |-> ed["duplicata"]["valor"]]]

\* the except clauses of generate_complete_report
ReportHandlers(r) ==
    IF ~IsRaised(r) THEN r
    ELSE IF r.raised = "KeyError"
    THEN ErrorResult("missing_required_field",
                     <<"Required field missing in input data", r.text>>)
    ELSE ErrorResult("unexpected_error", <<"Failed to generate report", r.text>>)

generate_complete_report(ca, fr, now) ==
    ReportHandlers(ReportBody(ca, fr, now))

(***************************************************************************)
(* Inputs                                                                   *)
(***************************************************************************)
\* "12.345.678/0001-90", "12345678000190", "123", "1234567800019X"
CnpjFormatted ==
    <<"1", "2", ".", "3", "4", "5", ".", "6", "7", "8", "/", "0", "0", "0", "1", "-", "9", "0">>
CnpjPlain == <<"1", "2", "3", "4", "5", "6", "7", "8", "0", "0", "0", "1", "9", "0">>
CnpjShort == <<"1", "2", "3">>
CnpjLetter == <<"1", "2", "3", "4", "5", "6", "7", "8", "0", "0", "0", "1", "9", "X">>
Cnpjs == {CnpjFormatted, CnpjPlain, CnpjShort, CnpjLetter}

\* "2025-12-31", "2025-02-30", "31/12/2025", null
DateOk == [iso |-> TRUE, y |-> 2025, m |-> 12, d |-> 31]
DateBadDay == [iso |-> TRUE, y |-> 2025, m |-> 2, d |-> 30]
DateNotIso == [iso |-> FALSE, y |-> 2025, m |-> 12, d |-> 31]
Dates == {DateOk, DateBadDay, DateNotIso, None}

Amounts == -1..MaxAmount

BaseEmpresa == [cnpj |-> CnpjFormatted, razao_social |-> "TechSolutions", setor |-> "Tecnologia"]
BaseDuplicata == [valor |-> 100, vencimento |-> DateOk]
BaseBalanco ==
    [ativo_circulante |-> 3, ativo_nao_circulante |-> 2, passivo_circulante |-> 2,
     passivo_nao_circulante |-> 1, patrimonio_liquido |-> 2]
BaseDre ==
    [receita_bruta |-> 12, receita_liquida |-> 10, lucro_bruto |-> 4,
     lucro_operacional |-> 3, lucro_liquido |-> 2, ebitda |-> 3]
ZeroBalanco == [k \in DOMAIN BaseBalanco |-> 0]
ZeroDre == [k \in DOMAIN BaseDre |-> 0]

\* a history of n operations, the first k of them paid late
History(n, k) ==
    [i \in 1..n |-> [status |-> "PAGO", dias_atraso |-> IF i <= k THEN 5 ELSE 0,
                     valor |-> 100]]
Histories == {History(n, k) : n \in 0..MaxOps, k \in 0..MaxOps} \cup
             {<<[status |-> "PENDENTE", valor |-> 50]>>}

BaseFinanceiro ==
    [balanco_patrimonial |-> BaseBalanco, dre |-> BaseDre,
     historico_pagamentos |-> History(2, 0)]

\* a syntactically valid document with the sections named in S
Doc(S, empresa, duplicata, financeiro) ==
    [syntax_ok |-> TRUE,
     data |-> [k \in S |-> IF k = "empresa" THEN empresa
                           ELSE IF k = "duplicata" THEN duplicata
                           ELSE financeiro]]
\* a text that is not JSON
NotJson == [syntax_ok |-> FALSE, data |-> EmptyDict]

AllSections == SeqToSet(required_sections)

\* documents that vary in structure: sections, company fields, tax-id,
\* receivable fields, due date and value
ValidationInput(json) ==
    \/ json = NotJson
    \/ \E S \in SUBSET AllSections, KE \in SUBSET SeqToSet(empresa_fields), c \in Cnpjs,
          KD \in SUBSET SeqToSet(duplicata_fields), v \in {-1, 0, 100}, d \in Dates :
          json = Doc(S,
                     Restrict([BaseEmpresa EXCEPT !.cnpj = c], KE),
                     Restrict([valor |-> v, vencimento |-> d], KD),
                     BaseFinanceiro)

FullDoc(balanco, dre, historico) ==
    Doc(AllSections, BaseEmpresa, BaseDuplicata,
        [balanco_patrimonial |-> balanco, dre |-> dre, historico_pagamentos |-> historico])

\* documents that vary in the figures the risk score reads
ScoreInput(json) ==
    \/ \E a \in Amounts, b \in Amounts, e \in {-1, 0, 1}, l \in {-1, 0, 1},
          h \in {<< >>, History(1, 0)} :
          json = FullDoc([BaseBalanco EXCEPT !.ativo_circulante = a,
                                             !.passivo_circulante = b,
                                             !.patrimonio_liquido = e],
                         [BaseDre EXCEPT !.lucro_liquido = l], h)
    \/ \E a \in {3, 5}, e \in {0, 1}, l \in {0, 1}, h \in Histories :
          json = FullDoc([BaseBalanco EXCEPT !.ativo_circulante = a,
                                             !.passivo_circulante = 4,
                                             !.patrimonio_liquido = e],
                         [BaseDre EXCEPT !.lucro_liquido = l], h)

\* documents that vary in which optional financial fields are present
PresenceInput(json) ==
    \/ \E KB \in SUBSET DOMAIN BaseBalanco, KD \in SUBSET DOMAIN BaseDre,
          b \in {BaseBalanco, ZeroBalanco}, d \in {BaseDre, ZeroDre} :
          json = FullDoc(Restrict(b, KB), Restrict(d, KD), History(1, 0))
    \/ \E KF \in SUBSET DOMAIN BaseFinanceiro :
          json = Doc(AllSections, BaseEmpresa, BaseDuplicata, Restrict(BaseFinanceiro, KF))

PipelineInput(json) == ValidationInput(json) \/ ScoreInput(json) \/ PresenceInput(json)

\* the instants datetime.now() may return
Clock == {[day |-> 1, microsecond |-> 0], [day |-> 2, microsecond |-> 1]}

(***************************************************************************)
(* The pipeline: agent.py runs credit_analyzer, ratio_calculator and        *)
(* report_generator in sequence; each stage's output is handed on as it is. *)
(***************************************************************************)
\* where a run is after a tool returned r: an escaping exception ends the run
After(agent, r) == IF IsRaised(r) THEN "crashed" ELSE agent

Init ==
    /\ entry = "extract_financial_data_tool"
    /\ stage = "start"
    /\ PipelineInput(duplicata_json)
    /\ credit_analysis = NotRun
    /\ financial_ratios = NotRun
    /\ final_report = NotRun
    /\ first_run = NotRun

RunCreditAnalyzer ==
    /\ stage = "start"
    /\ credit_analysis' = extract_financial_data_tool(duplicata_json)
    /\ stage' = After("credit_analyzer", credit_analysis')
    /\ UNCHANGED <<entry, duplicata_json, financial_ratios, final_report, first_run>>

\* RunRatioCalculator with an engine that writes its result into its argument
RunRatioCalculator_Mutating ==
    /\ stage = "credit_analyzer"
    /\ financial_ratios' = calculate_all_financial_ratios(credit_analysis)
    /\ stage' = After("ratio_calculator", financial_ratios')
    /\ credit_analysis' = financial_ratios'
    /\ UNCHANGED <<entry, duplicata_json, final_report, first_run>>

RunRatioCalculator ==
    /\ stage = "credit_analyzer"
    /\ financial_ratios' = calculate_all_financial_ratios(credit_analysis)
    /\ stage' = After("ratio_calculator", financial_ratios')
    /\ UNCHANGED <<entry, duplicata_json, credit_analysis, final_report, first_run>>

RunReportGenerator ==
    /\ stage = "ratio_calculator"
    /\ \E now \in Clock :
          final_report' = generate_complete_report(credit_analysis, financial_ratios, now)
    /\ stage' = After("report_generator", final_report')
    /\ UNCHANGED <<entry, duplicata_json, credit_analysis, financial_ratios, first_run>>

Next == RunCreditAnalyzer \/ RunRatioCalculator \/ RunReportGenerator

Spec == Init /\ [][Next]_vars

(***************************************************************************)
(* The stages called on their own, on inputs drawn from bounded sets        *)
(***************************************************************************)
\* an extracted_data dict as calculate_all_financial_ratios reads it
ExtractedData(balanco, dre) == [empresa |-> BaseEmpresa, balanco |-> balanco, dre |-> dre]

DirectBalanco == BalancoData(BaseBalanco)

\* total liabilities, out of total assets of 10000, at and next to the
\* breakpoints 0.3, 0.5 and 0.7 of the debt ratio
DebtSteps == {2999, 3000, 3001, 4999, 5000, 5001, 6999, 7000, 7001}

\* inputs of the Ratio Engine: the liquidity figures and their presence, the
\* sections present, a value that is no dict, the figures the health score
\* reads (current ratio, ROE, net margin, debt ratio), and profits, equity and
\* revenue at and next to the profitability thresholds
RatioInput(ed) ==
    \/ \E a \in Amounts, b \in Amounts,
          K \in SUBSET {"ativo_circulante", "passivo_circulante"} :
          ed = ExtractedData(
                  Restrict([DirectBalanco EXCEPT !.ativo_circulante = a,
                                                 !.passivo_circulante = b],
                           (DOMAIN DirectBalanco \ {"ativo_circulante", "passivo_circulante"})
                               \cup K),
                  BaseDre)
    \/ \E K \in SUBSET {"empresa", "balanco", "dre"} :
          ed = Restrict(ExtractedData(DirectBalanco, BaseDre), K)
    \/ ed = NotADict
    \/ ed = [ExtractedData(DirectBalanco, BaseDre) EXCEPT !.empresa = NotADict]
    \/ \E a \in {0, 3}, l \in {-5, 1}, pt \in DebtSteps :
          ed = ExtractedData(
                  [DirectBalanco EXCEPT !.ativo_circulante = a, !.ativo_total = 10000,
                                        !.passivo_total = pt],
                  [BaseDre EXCEPT !.lucro_liquido = l])
    \/ \E B \in SUBSET {"ativo_circulante", "ativo_total", "passivo_total"},
          D \in SUBSET {"receita_liquida", "lucro_operacional"}, n \in {None, NotADict},
          K \in {{"empresa", "balanco"}, {"empresa", "balanco", "dre"}} :
          ed = Restrict(ExtractedData(
                           [k \in DOMAIN DirectBalanco |->
                               IF k \in B THEN n ELSE DirectBalanco[k]],
                           [k \in DOMAIN BaseDre |-> IF k \in D THEN n ELSE BaseDre[k]]),
                        K)
    \/ \E l \in {-1, 0, 9, 10, 19, 20}, eb \in {24, 25}, r \in {0, 100}, e \in {0, 3, 100},
          t \in {0, 100} :
          ed = ExtractedData(
                  [DirectBalanco EXCEPT !.patrimonio_liquido = e, !.ativo_total = t],
                  [BaseDre EXCEPT !.lucro_liquido = l, !.ebitda = eb, !.receita_liquida = r])
    \/ \E a \in 0..MaxAmount, b \in {0, 1, 2}, l \in {-5, 0, 1, 5}, e \in {-5, 0, 5},
          r \in {0, 10}, pt \in {0, 1, 2, 3, 4, 6} :
          ed = ExtractedData(
                  [DirectBalanco EXCEPT !.ativo_circulante = a, !.passivo_circulante = b,
                                        !.patrimonio_liquido = e, !.ativo_total = 5,
                                        !.passivo_total = pt],
                  [BaseDre EXCEPT !.lucro_liquido = l, !.receita_liquida = r])

InitRatios ==
    /\ entry = "calculate_all_financial_ratios"
    /\ stage = "credit_analyzer"
    /\ duplicata_json = NotRun
    /\ RatioInput(credit_analysis)
    /\ financial_ratios = NotRun
    /\ final_report = NotRun
    /\ first_run = NotRun

NextRatios == RunRatioCalculator

SpecRatios == InitRatios /\ [][NextRatios]_vars

\* the score range 0.0 - 10.0: risk score in tenths, health score in hundredths
MaxRiskScore == 100
MaxHealthScore == 1000
\* spacing of the health scores drawn between the decision thresholds
HealthStep == 20

RiskScores == 0..MaxRiskScore
HealthScores ==
    {h \in 0..MaxHealthScore : h % HealthStep = 0} \cup {599, 600, 601, 799, 800, 801}

\* the credit_analysis of the credit_analyzer agent, as generate_complete_report
\* documents and reads it
AgentAnalysis(risk_score) ==
    [status |-> "success",
     risk_level |-> RiskLevel(risk_score),
     risk_score |-> risk_score,
     extracted_data |->
        [empresa |-> BaseEmpresa, duplicata |-> BaseDuplicata,
         balanco |-> DirectBalanco, dre |-> BaseDre,
         historico |-> HistoricoData(History(2, 0))],
     red_flags |-> << >>,
     positive_points |-> << >>,
     preliminary_recommendation |-> "REVISAR - Analise adicional necessaria",
     critical_notes |-> ""]

SampleJson == FullDoc(BaseBalanco, BaseDre, History(2, 0))
SampleExtraction == extract_financial_data_tool(SampleJson)
SampleRatios == calculate_all_financial_ratios(SampleExtraction)
SampleError == ErrorResult("invalid_cnpj", <<"CNPJ format invalid">>)

\* inputs of the Assembler: every pair of scores, the error payloads, values
\* that are no dict, and success payloads that lack a field the report reads
AssemblerInput(ca, fr) ==
    /\ \/ \E r \in RiskScores : ca = AgentAnalysis(r)
       \/ ca \in {SampleError, NotADict, SampleExtraction,
                  Restrict(AgentAnalysis(75),
                           DOMAIN AgentAnalysis(75) \ {"preliminary_recommendation"})}
    /\ \/ \E h \in HealthScores : fr = [SampleRatios EXCEPT !.financial_health_score = h]
       \/ fr \in {StageFailed("liquidity_failed", [message |-> <<"balanco not found">>]),
                  NotADict, [status |-> "success"]}

InitAssembler ==
    /\ entry = "generate_complete_report"
    /\ stage = "ratio_calculator"
    /\ duplicata_json = NotRun
    /\ AssemblerInput(credit_analysis, financial_ratios)
    /\ final_report = NotRun
    /\ first_run = NotRun

NextAssembler == RunReportGenerator

SpecAssembler == InitAssembler /\ [][NextAssembler]_vars

\* every stage, in a pipeline run and on its own
InitStages == Init \/ InitRatios \/ InitAssembler

SpecStages == InitStages /\ [][Next]_vars

\* the stage a run is at before its first tool is called
StartStage ==
    IF entry = "extract_financial_data_tool" THEN "start"
    ELSE IF entry = "calculate_all_financial_ratios" THEN "credit_analyzer"
    ELSE "ratio_calculator"

\* the caller keeps the results of a finished run and starts again on the same input
Rerun ==
    /\ stage = "report_generator"
    /\ first_run = NotRun
    /\ first_run' = [credit_analysis |-> credit_analysis,
                     financial_ratios |-> financial_ratios,
                     final_report |-> final_report]
    /\ stage' = StartStage
    /\ credit_analysis' =
          IF entry = "extract_financial_data_tool" THEN NotRun ELSE credit_analysis
    /\ financial_ratios' =
          IF entry = "generate_complete_report" THEN financial_ratios ELSE NotRun
    /\ final_report' = NotRun
    /\ UNCHANGED <<entry, duplicata_json>>

NextTwice == Next \/ Rerun

SpecTwice == InitStages /\ [][NextTwice]_vars

(***************************************************************************)
(* Properties                                                               *)
(***************************************************************************)
ExtractorRan ==
    entry = "extract_financial_data_tool"
    /\ stage \in {"credit_analyzer", "ratio_calculator", "report_generator"}
RatiosRan ==
    entry # "generate_complete_report" /\ stage \in {"ratio_calculator", "report_generator"}
ReportRan == stage = "report_generator"

IsSuccess(r) == IsDict(r) /\ Get(r, "status", "") = "success"
IsError(r) == IsDict(r) /\ Get(r, "status", "") = "error"
ErrorKind(r) == Get(r, "error", "")

Decisions == {"APROVAR", "APROVAR COM RESSALVAS", "REVISAR", "NEGAR"}

\* both inputs of the Assembler are success payloads carrying every field it reads
BothScored ==
    /\ IsSuccess(credit_analysis) /\ DOMAIN credit_analysis = DOMAIN AgentAnalysis(0)
    /\ IsSuccess(financial_ratios) /\ DOMAIN financial_ratios = DOMAIN SampleRatios

\* C1: for every pair of scores in [0,10] x [0,10] the Assembler, given two
\* success inputs, returns exactly one decision, the first matching row of
\* risk >= 7.0 and health >= 8.0 -> APROVAR; risk >= 5.0 and health >= 6.0 ->
\* APROVAR COM RESSALVAS; risk >= 4.0 -> REVISAR; otherwise NEGAR.  A risk
\* score below 4.0 gives NEGAR whatever the health score.
C1_DecisionMatrix ==
    (ReportRan /\ BothScored) =>
        LET r == credit_analysis.risk_score
            h == financial_ratios.financial_health_score
            d == Get(final_report, "final_decision", "none")
            row1 == r >= 70 /\ h >= 800
            row2 == r >= 50 /\ h >= 600
            row3 == r >= 40
        IN  /\ IsSuccess(final_report)
            /\ d \in Decisions
            /\ (d = "APROVAR") <=> row1
            /\ (d = "APROVAR COM RESSALVAS") <=> (~row1 /\ row2)
            /\ (d = "REVISAR") <=> (~row1 /\ ~row2 /\ row3)
            /\ (d = "NEGAR") <=> (~row1 /\ ~row2 /\ ~row3)
            /\ (r < 40 => d = "NEGAR")

\* a risk score just below 4.0 with the best health score is denied
C1_Witness ==
    /\ ReportRan /\ BothScored
    /\ credit_analysis.risk_score = 39
    /\ financial_ratios.financial_health_score = 1000
    /\ Get(final_report, "final_decision", "none") = "NEGAR"

\* C2: when each stage's full output is handed on as it is and the first two
\* stages succeed, the Assembler returns success with one of the four
\* decisions, never an error.
C2_ChainReachesDecided ==
    (ReportRan /\ ExtractorRan /\ IsSuccess(credit_analysis) /\ IsSuccess(financial_ratios)) =>
        /\ IsSuccess(final_report)
        /\ Get(final_report, "final_decision", "none") \in Decisions

\* C3: in every success payload of the Extractor, a red flag of severity
\* CRITICAL means a risk score of at most 3.5.
C3_CriticalCapsScore ==
    (ExtractorRan /\ IsSuccess(credit_analysis)) =>
        LET flags == credit_analysis.derived_metrics.calculated_red_flags IN
        (\E i \in DOMAIN flags : flags[i].severity = "CRITICAL") =>
            credit_analysis.risk_analysis.score <= 35

\* a CRITICAL flag on a company whose other components add up to 7.0
C3_Witness ==
    /\ ExtractorRan /\ IsSuccess(credit_analysis)
    /\ \E i \in DOMAIN credit_analysis.derived_metrics.calculated_red_flags :
          credit_analysis.derived_metrics.calculated_red_flags[i].severity = "CRITICAL"
    /\ credit_analysis.balanco["patrimonio_liquido"] > 0
    /\ credit_analysis.dre["lucro_liquido"] > 0
    /\ credit_analysis.historico.total_operacoes > 0
    /\ credit_analysis.historico.atrasos = 0
    /\ credit_analysis.risk_analysis.score = 35

\* the section of a parsed document, {} when it is absent
SectionOf(json, name) == Get(json.data, name, EmptyDict)

\* the error kinds the validation order allows for a document: that of the
\* earliest check it violates (a missing due date violates the date check or
\* the presence check); empty when it violates none
ExpectedKinds(json) ==
    IF ~json.syntax_ok THEN {"invalid_json"}
    ELSE IF ~(AllSections \subseteq DOMAIN json.data) THEN {"missing_sections"}
    ELSE IF ~({"cnpj", "razao_social", "setor"} \subseteq DOMAIN SectionOf(json, "empresa"))
    THEN {"incomplete_empresa_data"}
    ELSE IF CnpjInvalid(SectionOf(json, "empresa")["cnpj"]) THEN {"invalid_cnpj"}
    ELSE IF "vencimento" \notin DOMAIN SectionOf(json, "duplicata")
    THEN {"invalid_date_format", "incomplete_duplicata_data"}
    ELSE IF FromIsoFormat(SectionOf(json, "duplicata")["vencimento"]) # "ok"
    THEN {"invalid_date_format"}
    ELSE IF "valor" \notin DOMAIN SectionOf(json, "duplicata")
    THEN {"incomplete_duplicata_data"}
    ELSE IF SectionOf(json, "duplicata")["valor"] <= 0 THEN {"invalid_duplicata_value"}
    ELSE {}

\* C4: the Extractor fails fast in the order invalid_json, missing_sections,
\* incomplete_empresa_data, invalid_cnpj, invalid_date_format,
\* incomplete_duplicata_data / invalid_duplicata_value: the error returned is
\* that of the earliest violated check, and success is returned only when no
\* check is violated.
C4_FailFastOrder ==
    ExtractorRan =>
        IF ExpectedKinds(duplicata_json) = {}
        THEN IsSuccess(credit_analysis)
        ELSE IsError(credit_analysis) /\ ErrorKind(credit_analysis) \in ExpectedKinds(duplicata_json)

\* the document is valid but for the fields its receivable section lacks
ValidButReceivableFields(json) ==
    /\ json.syntax_ok
    /\ AllSections \subseteq DOMAIN json.data
    /\ {"cnpj", "razao_social", "setor"} \subseteq DOMAIN SectionOf(json, "empresa")
    /\ ~CnpjInvalid(SectionOf(json, "empresa")["cnpj"])
    /\ "vencimento" \in DOMAIN SectionOf(json, "duplicata") =>
          FromIsoFormat(SectionOf(json, "duplicata")["vencimento"]) = "ok"
    /\ "valor" \in DOMAIN SectionOf(json, "duplicata") =>
          SectionOf(json, "duplicata")["valor"] > 0

\* C5: when the receivable section of an otherwise valid input lacks valor or
\* vencimento, the Extractor returns the error incomplete_duplicata_data.
C5_MissingReceivableField ==
    (/\ ExtractorRan
     /\ ValidButReceivableFields(duplicata_json)
     /\ ~({"valor", "vencimento"} \subseteq DOMAIN SectionOf(duplicata_json, "duplicata"))) =>
        IsError(credit_analysis) /\ ErrorKind(credit_analysis) = "incomplete_duplicata_data"

\* the two tagged shapes: success, or error with a kind and a message
Tagged(r) ==
    /\ IsDict(r)
    /\ "status" \in DOMAIN r
    /\ r.status \in {"success", "error"}
    /\ r.status = "error" => {"error", "message"} \subseteq DOMAIN r

\* C6: each of the three entry points returns a result whose status is
\* 'success' or 'error', an error carries its kind and its message, no
\* exception escapes to the caller, and a success carries the whole payload.
C6_TaggedResults ==
    /\ stage # "crashed"
    /\ ExtractorRan =>
          /\ Tagged(credit_analysis)
          /\ IsSuccess(credit_analysis) =>
                DOMAIN credit_analysis =
                    {"status", "empresa", "duplicata", "balanco", "dre", "historico",
                     "derived_metrics", "completeness", "risk_analysis"}
    /\ RatiosRan =>
          /\ Tagged(financial_ratios)
          /\ IsSuccess(financial_ratios) =>
                DOMAIN financial_ratios =
                    {"status", "liquidity", "profitability", "debt", "benchmark_comparison",
                     "financial_health_score", "summary"}
    /\ ReportRan =>
          /\ Tagged(final_report)
          /\ IsSuccess(final_report) =>
                DOMAIN final_report = {"status", "report", "final_decision", "metadata"}

\* a run in which an exception raised inside the Extractor came back as an
\* error result, and both later stages answered with error results too
C6_Witness ==
    /\ ReportRan /\ ExtractorRan
    /\ IsError(credit_analysis) /\ ErrorKind(credit_analysis) = "unexpected_error"
    /\ IsError(financial_ratios)
    /\ IsError(final_report)

SameError(x, y) ==
    /\ IsError(x)
    /\ ErrorKind(x) = ErrorKind(y)
    /\ x.message = y.message

ValidInput(json) ==
    /\ ValidButReceivableFields(json)
    /\ {"valor", "vencimento"} \subseteq DOMAIN SectionOf(json, "duplicata")

InputBalanco(json) == Get(SectionOf(json, "financeiro"), "balanco_patrimonial", EmptyDict)
InputDre(json) == Get(SectionOf(json, "financeiro"), "dre", EmptyDict)

\* the optional financial fields the document does not supply
AbsentFields(json) ==
    {<<"balanco", f>> : f \in SeqToSet(balanco_fields) \ DOMAIN InputBalanco(json)} \cup
    {<<"dre", f>> : f \in SeqToSet(dre_fields) \ DOMAIN InputDre(json)}

\* C8: for an input that passes validation, whatever subset of the five
\* balance-sheet and six income-statement fields is absent, the Extractor
\* returns success, every absent field has value 0.0, missing_fields lists
\* exactly the absent fields (never a derived total, never a supplied field,
\* even one supplied as 0), and all_fields_present holds iff the list is empty.
C8_MissingFieldsExact ==
    (ExtractorRan /\ ValidInput(duplicata_json)) =>
        /\ IsSuccess(credit_analysis)
        /\ \A f \in SeqToSet(balanco_fields) \ DOMAIN InputBalanco(duplicata_json) :
              credit_analysis.balanco[f] = 0
        /\ \A f \in SeqToSet(dre_fields) \ DOMAIN InputDre(duplicata_json) :
              credit_analysis.dre[f] = 0
        /\ SeqToSet(credit_analysis.completeness.missing_fields) = AbsentFields(duplicata_json)
        /\ Len(credit_analysis.completeness.missing_fields)
              = Cardinality(AbsentFields(duplicata_json))
        /\ credit_analysis.completeness.all_fields_present
              <=> (credit_analysis.completeness.missing_fields = << >>)

\* one field absent beside a field supplied with the value 0
C8_Witness ==
    /\ ExtractorRan /\ ValidInput(duplicata_json) /\ IsSuccess(credit_analysis)
    /\ "ativo_circulante" \notin DOMAIN InputBalanco(duplicata_json)
    /\ "passivo_circulante" \in DOMAIN InputBalanco(duplicata_json)
    /\ InputBalanco(duplicata_json)["passivo_circulante"] = 0
    /\ credit_analysis.completeness.missing_fields = << <<"balanco", "ativo_circulante">> >>
    /\ ~credit_analysis.completeness.all_fields_present

Abs(x) == IF x < 0 THEN -x ELSE x

\* cr (e4) is a / b rounded to 4 decimals, b > 0
IsRounded4(cr, a, b) == 2 * Abs(cr * b - 10000 * a) <= b

\* the Ratio Engine succeeded on a balance sheet with both liquidity figures
LiquiditySucceeded ==
    /\ RatiosRan /\ IsSuccess(financial_ratios)
    /\ credit_analysis.balanco["ativo_circulante"] >= 0
    /\ credit_analysis.balanco["passivo_circulante"] >= 0

\* C9: for non-negative current assets a and current liabilities b, the
\* current_ratio of calculate_liquidity_ratios is 0.0 when b = 0 and a = 0, the
\* sentinel 999.0 when b = 0 and a > 0, and round(a / b, 4) otherwise.
C9_SentinelOnZeroLiabilities ==
    LiquiditySucceeded =>
        LET a == credit_analysis.balanco["ativo_circulante"]
            b == credit_analysis.balanco["passivo_circulante"]
            cr == financial_ratios.liquidity.ratios.current_ratio
        IN  /\ (b = 0 /\ a = 0) => cr = 0
            /\ (b = 0 /\ a > 0) => cr = 9990000
            /\ b > 0 => IsRounded4(cr, a, b)

\* C10: the health score is within [0, 10] for every triple of success ratio
\* sets, with a negative ROE or net margin, a current ratio above 2.5 or a
\* debt ratio above 1 included.
C10_HealthScoreInRange ==
    (RatiosRan /\ IsSuccess(financial_ratios)) =>
        /\ financial_ratios.financial_health_score >= 0
        /\ financial_ratios.financial_health_score <= 1000

\* a negative ROE and net margin, a current ratio above 2.5, a debt ratio above 1
C10_Witness ==
    /\ RatiosRan /\ IsSuccess(financial_ratios)
    /\ financial_ratios.profitability.ratios.roe < 0
    /\ financial_ratios.profitability.ratios.margem_liquida < 0
    /\ financial_ratios.liquidity.ratios.current_ratio > 25000
    /\ financial_ratios.debt.ratios.debt_ratio > 10000
    /\ financial_ratios.financial_health_score \in 0..1000

\* the Ratio Engine succeeded, so its debt ratios are part of the result
DebtReported == RatiosRan /\ IsSuccess(financial_ratios)

CriticalEquity == "CRITICO - Patrimonio liquido zero ou negativo"

ReportButTimestamp(report) == [k \in DOMAIN report \ {"data_analise", "timestamp"} |-> report[k]]

\* two Assembler results that differ in the generation timestamp at most
SameButTimestamp(x, y) ==
    IF IsSuccess(x) /\ IsSuccess(y)
    THEN /\ x.final_decision = y.final_decision
         /\ ReportButTimestamp(x.report) = ReportButTimestamp(y.report)
         /\ \A k \in {"report_length", "sections", "empresa", "cnpj", "valor_duplicata"} :
               x.metadata[k] = y.metadata[k]
    ELSE x = y

\* a run was repeated on the same input and the second run has finished
RanTwice == first_run # NotRun /\ stage = "report_generator"

\* C12: running the pipeline twice on identical input yields identical output
\* in every field except the generation timestamp: the risk score and level,
\* all ratios, the health score, final_decision, and the other metadata fields
\* (report_length, sections) are equal between the two runs.
C12_RepeatableButTimestamp ==
    RanTwice =>
        /\ credit_analysis = first_run.credit_analysis
        /\ financial_ratios = first_run.financial_ratios
        /\ SameButTimestamp(final_report, first_run.final_report)

\* exactly 14 characters, each of them a digit
FourteenDigits(cnpj) == Len(cnpj) = 14 /\ \A i \in 1..14 : cnpj[i] \in Digits

\* the tax-id with the characters ".", "/" and "-" removed
WithoutSeparators(raw) == SelectSeq(raw, LAMBDA c : c \notin {".", "/", "-"})

\* the document gets as far as the tax-id check
ReachesCnpjCheck(json) ==
    /\ json.syntax_ok
    /\ AllSections \subseteq DOMAIN json.data
    /\ {"cnpj", "razao_social", "setor"} \subseteq DOMAIN SectionOf(json, "empresa")

\* C13: in every success payload of the Extractor the company CNPJ is the
\* normalized tax-id, exactly 14 digits with the separators removed; a tax-id
\* that does not normalize to exactly 14 digits yields invalid_cnpj.
C13_CnpjNormalized ==
    ExtractorRan =>
        /\ IsSuccess(credit_analysis) =>
              /\ FourteenDigits(credit_analysis.empresa.cnpj)
              /\ credit_analysis.empresa.cnpj =
                    WithoutSeparators(SectionOf(duplicata_json, "empresa")["cnpj"])
        /\ (/\ ReachesCnpjCheck(duplicata_json)
            /\ ~FourteenDigits(WithoutSeparators(SectionOf(duplicata_json, "empresa")["cnpj"]))) =>
              IsError(credit_analysis) /\ ErrorKind(credit_analysis) = "invalid_cnpj"

\* C14: every balance sheet the Extractor emits in a success payload has all
\* components non-negative: the five input components and the two derived
\* totals; a negative component in the input never reaches a success payload.
C14_BalanceNonNegative ==
    (ExtractorRan /\ IsSuccess(credit_analysis)) =>
        /\ DOMAIN credit_analysis.balanco =
              SeqToSet(balanco_fields) \cup {"ativo_total", "passivo_total"}
        /\ \A k \in DOMAIN credit_analysis.balanco : credit_analysis.balanco[k] >= 0

\* calculate_all_financial_ratios was called on a dict and has returned
EngineRanOnDict == RatiosRan /\ IsDict(credit_analysis)

\* the error of a sub-stage, renamed after the sub-stage
FailedAs(r, kind, sub) ==
    /\ IsError(r)
    /\ ErrorKind(r) = kind
    /\ r.message = sub.message

\* C15: calculate_all_financial_ratios evaluates liquidity, profitability,
\* debt and benchmark in this order; at the first sub-stage that is not a
\* success it returns status error with kind liquidity_failed,
\* profitability_failed, debt_failed or benchmark_failed and that sub-stage's
\* message; it returns success, with liquidity, profitability, debt,
\* benchmark_comparison, financial_health_score and summary, only if all four
\* sub-stages succeeded.
C15_SubStageOrder ==
    EngineRanOnDict =>
        LET liquidity == calculate_liquidity_ratios(credit_analysis)
            profitability == calculate_profitability_ratios(credit_analysis)
            debt == calculate_debt_ratios(credit_analysis)
        IN  /\ ~IsSuccess(liquidity) =>
                  FailedAs(financial_ratios, "liquidity_failed", liquidity)
            /\ (IsSuccess(liquidity) /\ ~IsSuccess(profitability)) =>
                  FailedAs(financial_ratios, "profitability_failed", profitability)
            /\ (IsSuccess(liquidity) /\ IsSuccess(profitability) /\ ~IsSuccess(debt)) =>
                  FailedAs(financial_ratios, "debt_failed", debt)
            /\ IsSuccess(financial_ratios) =>
                  /\ IsSuccess(liquidity) /\ IsSuccess(profitability) /\ IsSuccess(debt)
                  /\ DOMAIN financial_ratios =
                        {"status", "liquidity", "profitability", "debt",
                         "benchmark_comparison", "financial_health_score", "summary"}
                  /\ financial_ratios.liquidity = liquidity
                  /\ financial_ratios.profitability = profitability
                  /\ financial_ratios.debt = debt
                  /\ IsSuccess(financial_ratios.benchmark_comparison)
            /\ (IsError(financial_ratios) /\ ErrorKind(financial_ratios) = "benchmark_failed") =>
                  IsSuccess(liquidity) /\ IsSuccess(profitability) /\ IsSuccess(debt)

\* an input on which profitability and debt would both fail: the error is the
\* earlier one, profitability_failed
C15_Witness ==
    /\ EngineRanOnDict
    /\ IsSuccess(calculate_liquidity_ratios(credit_analysis))
    /\ IsError(calculate_profitability_ratios(credit_analysis))
    /\ IsError(calculate_debt_ratios(credit_analysis))
    /\ ErrorKind(financial_ratios) = "profitability_failed"
    /\ financial_ratios.message = <<"Field must be numeric", "ativo_total">>

\* an Assembler error of the given kind, without a decision
RejectedAs(kind) ==
    /\ IsError(final_report)
    /\ ErrorKind(final_report) = kind
    /\ "final_decision" \notin DOMAIN final_report

\* C16: generate_complete_report returns an invalid-input error naming the
\* invalid side and no decision: invalid_credit_analysis when the status of
\* its first input is not success (also when neither is), and
\* invalid_financial_ratios when the first is a success and the second is not.
C16_InvalidSideNamed ==
    (ReportRan /\ IsDict(credit_analysis)) =>
        /\ ~IsSuccess(credit_analysis) => RejectedAs("invalid_credit_analysis")
        /\ (IsSuccess(credit_analysis) /\ IsDict(financial_ratios)
                /\ ~IsSuccess(financial_ratios)) =>
              RejectedAs("invalid_financial_ratios")

\* neither input is a success: the error names the first
C16_Witness ==
    /\ ReportRan
    /\ entry = "generate_complete_report"
    /\ IsError(credit_analysis)
    /\ IsError(financial_ratios)
    /\ RejectedAs("invalid_credit_analysis")

\* the payment history of the input document
InputHistory(json) == Get(SectionOf(json, "financeiro"), "historico_pagamentos", << >>)

\* the operations of the history that were paid late
LateOps(h) == {i \in DOMAIN h : "dias_atraso" \in DOMAIN h[i] /\ h[i]["dias_atraso"] > 0}

\* L, in tenths, of a current ratio n / d with d > 0
ExpectedL(ratio) ==
    IF 10 * ratio.num >= 15 * ratio.den THEN 30
    ELSE IF ratio.num >= ratio.den THEN 20
    ELSE IF 10 * ratio.num >= 8 * ratio.den THEN 10
    ELSE 0

\* S, in tenths, of the equity and the net profit of the input (0 when absent)
ExpectedS(json) ==
    (IF Get(InputBalanco(json), "patrimonio_liquido", 0) > 0 THEN 15 ELSE 0) +
    (IF Get(InputDre(json), "lucro_liquido", 0) > 0 THEN 15 ELSE 0)

\* P, in tenths, of a history of total operations, late of them paid late
ExpectedP(total, late) ==
    IF total = 0 THEN 20
    ELSE IF late = 0 THEN 40
    ELSE IF 100 * late <= 10 * total THEN 20
    ELSE IF 100 * late <= 30 * total THEN 10
    ELSE 0

\* C17: for every validated input the risk score is L + S + P, capped at 3.5
\* only when a CRITICAL flag exists: L is 3/2/1/0 for a current ratio >= 1.5,
\* >= 1.0, >= 0.8, lower; S is 1.5 for equity > 0 plus 1.5 for net profit > 0;
\* P is 2 without past operations, else 4/2/1/0 for a late ratio of 0, <= 10%,
\* <= 30%, higher; the score lies in [0, 10].
C17_ScoreIsSumOfComponents ==
    (ExtractorRan /\ ValidInput(duplicata_json) /\ IsSuccess(credit_analysis)) =>
        LET h == InputHistory(duplicata_json)
            sum == ExpectedL(credit_analysis.derived_metrics.liquidez_corrente)
                   + ExpectedS(duplicata_json)
                   + ExpectedP(Len(h), Cardinality(LateOps(h)))
            critical ==
                \E i \in DOMAIN credit_analysis.derived_metrics.calculated_red_flags :
                    credit_analysis.derived_metrics.calculated_red_flags[i].severity = "CRITICAL"
            score == credit_analysis.risk_analysis.score
        IN  /\ score = IF critical /\ sum > 35 THEN 35 ELSE sum
            /\ score >= 0
            /\ score <= MaxRiskScore

\* ten operations, three of them late (P = 1), a current ratio of 1.25 (L = 2),
\* positive equity and profit (S = 3): 6.0
C17_Witness ==
    /\ ExtractorRan /\ ValidInput(duplicata_json) /\ IsSuccess(credit_analysis)
    /\ Len(InputHistory(duplicata_json)) = 10
    /\ Cardinality(LateOps(InputHistory(duplicata_json))) = 3
    /\ credit_analysis.derived_metrics.liquidez_corrente = Rat(5, 4)
    /\ ExpectedS(duplicata_json) = 30
    /\ credit_analysis.risk_analysis.score = 60

\* C18: in every success payload of the Extractor the level agrees with the
\* score of the same payload: BAIXO iff score >= 7.0, MEDIO iff
\* 4.0 <= score < 7.0, ALTO iff score < 4.0, capping and rounding included.
C18_LevelAgreesWithScore ==
    (ExtractorRan /\ IsSuccess(credit_analysis)) =>
        LET score == credit_analysis.risk_analysis.score
            level == credit_analysis.risk_analysis.level
        IN  /\ level \in {"BAIXO", "MEDIO", "ALTO"}
            /\ (level = "BAIXO") <=> (score >= 70)
            /\ (level = "MEDIO") <=> (score >= 40 /\ score < 70)
            /\ (level = "ALTO") <=> (score < 40)

\* components that add up to 7.0 or more, capped to 3.5, with the level ALTO
C18_Witness ==
    /\ ExtractorRan /\ ValidInput(duplicata_json) /\ IsSuccess(credit_analysis)
    /\ ExpectedS(duplicata_json)
          + ExpectedP(Len(InputHistory(duplicata_json)),
                      Cardinality(LateOps(InputHistory(duplicata_json)))) >= 70
    /\ credit_analysis.risk_analysis.score = 35
    /\ credit_analysis.risk_analysis.level = "ALTO"

\* the Extractor succeeded on a validated document
Extracted == ExtractorRan /\ ValidInput(duplicata_json) /\ IsSuccess(credit_analysis)

\* C19: the Extractor's liquidez_corrente is current assets / current
\* liabilities when liabilities > 0, 0 when liabilities = 0 and assets = 0, and
\* the sentinel 999.0 when liabilities = 0 and assets > 0; the red-flag list
\* holds exactly one LIQUIDITY flag when that ratio is < 1.0 (CRITICAL iff it
\* is < 0.8, otherwise HIGH) and is empty when the ratio is >= 1.0.
C19_DerivedCurrentRatio ==
    Extracted =>
        LET a == Get(InputBalanco(duplicata_json), "ativo_circulante", 0)
            b == Get(InputBalanco(duplicata_json), "passivo_circulante", 0)
            lc == credit_analysis.derived_metrics.liquidez_corrente
            flags == credit_analysis.derived_metrics.calculated_red_flags
        IN  /\ lc.den > 0
            /\ b > 0 => lc.num * b = a * lc.den
            /\ (b = 0 /\ a = 0) => lc.num = 0
            /\ (b = 0 /\ a > 0) => lc.num = 999 * lc.den
            /\ lc.num < lc.den =>
                  /\ Len(flags) = 1
                  /\ flags[1].category = "LIQUIDITY"
                  /\ flags[1].severity \in {"CRITICAL", "HIGH"}
                  /\ (flags[1].severity = "CRITICAL") <=> (10 * lc.num < 8 * lc.den)
            /\ lc.num >= lc.den => flags = << >>

\* assets without liabilities carry the sentinel and no flag
C19_Witness ==
    /\ Extracted
    /\ Get(InputBalanco(duplicata_json), "ativo_circulante", 0) > 0
    /\ Get(InputBalanco(duplicata_json), "passivo_circulante", 0) = 0
    /\ credit_analysis.derived_metrics.liquidez_corrente = Rat(999, 1)
    /\ credit_analysis.derived_metrics.calculated_red_flags = << >>

\* D, in points, of a debt ratio in units of 10^-4
ExpectedD(dr) ==
    IF dr <= 3000 THEN 10 ELSE IF dr <= 5000 THEN 8 ELSE IF dr <= 7000 THEN 5 ELSE 2

\* x limited to lo..hi
Limited(x, lo, hi) == IF x < lo THEN lo ELSE IF x > hi THEN hi ELSE x

\* 0.3 * clamp(cr / 2.5 * 10) + 0.4 * clamp(roe * 10 * 0.6 + margin * 10 * 0.4)
\* + 0.3 * D, clamped to [0, 10], in units of 10^-5 points; the ratios are in
\* units of 10^-4
ExpectedWeighted(cr, roe, margin, dr) ==
    Limited(3 * Limited(4 * cr, 0, 100000)
            + 4 * Limited(6 * roe + 4 * margin, 0, 100000)
            + 3 * ExpectedD(dr) * 10000,
            0, 1000000)

\* C20: the health score is clamp(0.3 * clamp(current_ratio / 2.5 * 10, 0, 10)
\* + 0.4 * clamp(ROE * 10 * 0.6 + net_margin * 10 * 0.4, 0, 10) + 0.3 * D, 0, 10)
\* rounded to 2 decimals, where D is 10 for a debt ratio <= 0.3, 8 for <= 0.5,
\* 5 for <= 0.7 and 2 above: D changes exactly at 0.3, 0.5 and 0.7, each
\* breakpoint belonging to the better band.
C20_HealthScoreFormula ==
    (RatiosRan /\ IsSuccess(financial_ratios)) =>
        LET w == ExpectedWeighted(financial_ratios.liquidity.ratios.current_ratio,
                                  financial_ratios.profitability.ratios.roe,
                                  financial_ratios.profitability.ratios.margem_liquida,
                                  financial_ratios.debt.ratios.debt_ratio)
            score == financial_ratios.financial_health_score
        IN  2 * Abs(1000 * score - w) <= 1000

\* a debt ratio of exactly 0.3 scored in the band of 10: with a current ratio
\* of 1.5, a ROE of 0.5 and a net margin of 0.1 the score is
\* 0.3 * 6 + 0.4 * 3.4 + 0.3 * 10 = 6.16
C20_Witness ==
    /\ RatiosRan /\ IsSuccess(financial_ratios)
    /\ financial_ratios.debt.ratios.debt_ratio = 3000
    /\ financial_ratios.liquidity.ratios.current_ratio = 15000
    /\ financial_ratios.profitability.ratios.roe = 5000
    /\ financial_ratios.profitability.ratios.margem_liquida = 1000
    /\ financial_ratios.financial_health_score = 616

\* the benchmark comparison of a successful engine run
Benchmark == financial_ratios.benchmark_comparison

\* the compared metrics of the benchmark comparison that have the given status
MetricsWith(status) == {k \in DOMAIN Benchmark.benchmarks : Benchmark.benchmarks[k].status = status}

\* C21: compare_with_benchmarks, on three success ratio sets, gives every
\* compared metric one of the statuses Excelente, Bom, Adequado, Abaixo do
\* esperado; overall_assessment is above_average when at least 3 metrics are
\* Excelente, else below_average when at least 3 are Abaixo do esperado, else
\* average (above_average wins when both counts reach 3); and in
\* metrics_summary above_average + below_average + average = total_metrics.
C21_OverallAssessment ==
    (RatiosRan /\ IsSuccess(financial_ratios)) =>
        LET excellent == Cardinality(MetricsWith("Excelente"))
            below == Cardinality(MetricsWith("Abaixo do esperado"))
            summary == Benchmark.metrics_summary
        IN  /\ \A k \in DOMAIN Benchmark.benchmarks :
                  Benchmark.benchmarks[k].status \in
                      {"Excelente", "Bom", "Adequado", "Abaixo do esperado"}
            /\ Benchmark.overall_assessment \in {"above_average", "below_average", "average"}
            /\ (excellent >= 3) <=> (Benchmark.overall_assessment = "above_average")
            /\ (excellent < 3 /\ below >= 3) <=> (Benchmark.overall_assessment = "below_average")
            /\ summary.above_average = excellent
            /\ summary.below_average = below
            /\ summary.total_metrics = Cardinality(DOMAIN Benchmark.benchmarks)
            /\ summary.above_average + summary.below_average + summary.average
                  = summary.total_metrics

\* three metrics Excelente and three Abaixo do esperado: above_average wins
C21_Witness ==
    /\ RatiosRan /\ IsSuccess(financial_ratios)
    /\ Cardinality(MetricsWith("Excelente")) = 3
    /\ Cardinality(MetricsWith("Abaixo do esperado")) = 3
    /\ Benchmark.overall_assessment = "above_average"

\* the figure a statement holds under a key: 0 when the key is absent or null
Figure(d, key) == IF key \in DOMAIN d /\ ToString(d[key]) # ToString(None) THEN d[key] ELSE 0

\* x is line / base rounded to 4 decimals when base > 0, and 0 otherwise
IsQuotientOrZero(x, line, base) == IF base > 0 THEN IsRounded4(x, line, base) ELSE x = 0

\* a list of alerts or strengths has an entry with the given text
HasNote(notes, msg) == \E i \in DOMAIN notes : notes[i].msg = msg

\* the engine ran on a dict and its profitability step succeeded
ProfitabilityReported == RatiosRan /\ IsSuccess(financial_ratios)

\* C22: ROE = net profit / equity (0 when equity <= 0), ROA = net profit /
\* total assets (0 when total assets <= 0), gross, net and EBITDA margin = the
\* line / net revenue (0 when net revenue <= 0); the alerts hold the low-ROE
\* alert iff ROE < 0.10 and the margin alert iff net margin <= 0; the strengths
\* hold the ROE entry iff ROE >= 0.20 and the EBITDA entry iff EBITDA margin >= 0.25.
C22_ProfitabilityRatios ==
    ProfitabilityReported =>
        LET bal == credit_analysis.balanco
            dre == credit_analysis.dre
            p == financial_ratios.profitability
            lucro == Figure(dre, "lucro_liquido")
            receita == Figure(dre, "receita_liquida")
        IN  /\ IsQuotientOrZero(p.ratios.roe, lucro, Figure(bal, "patrimonio_liquido"))
            /\ IsQuotientOrZero(p.ratios.roa, lucro, Figure(bal, "ativo_total"))
            /\ IsQuotientOrZero(p.ratios.margem_bruta, Figure(dre, "lucro_bruto"), receita)
            /\ IsQuotientOrZero(p.ratios.margem_liquida, lucro, receita)
            /\ IsQuotientOrZero(p.ratios.ebitda_margin, Figure(dre, "ebitda"), receita)
            /\ HasNote(p.alerts, "ROE baixo") <=> (p.ratios.roe < 1000)
            /\ HasNote(p.alerts, "Margem liquida negativa ou zero")
                  <=> (p.ratios.margem_liquida <= 0)
            /\ HasNote(p.strengths, "ROE forte") <=> (p.ratios.roe >= 2000)
            /\ HasNote(p.strengths, "EBITDA margin forte") <=> (p.ratios.ebitda_margin >= 2500)

\* a ROE of exactly 0.10 beside an EBITDA margin of exactly 0.25: no low-ROE
\* alert, no ROE strength, the EBITDA strength
C22_Witness ==
    /\ ProfitabilityReported
    /\ financial_ratios.profitability.ratios.roe = 1000
    /\ financial_ratios.profitability.ratios.ebitda_margin = 2500
    /\ financial_ratios.profitability.alerts = << >>
    /\ financial_ratios.profitability.strengths = <<Note("EBITDA margin forte", 2500)>>

\* the two figures calculate_liquidity_ratios requires
LiquidityFigures == {"ativo_circulante", "passivo_circulante"}

\* a statement holds a negative number under a key
IsNegative(d, key) == key \in DOMAIN d /\ ~IsNonNumeric(d[key]) /\ Figure(d, key) < 0

\* the engine ran on a dict that has a balance sheet
EngineRanOnBalanco == EngineRanOnDict /\ "balanco" \in DOMAIN credit_analysis

\* C23: calculate_liquidity_ratios returns an error and no ratios when current
\* assets or current liabilities is missing from the balance sheet or is
\* negative; on success quick_ratio = current_ratio, working_capital = current
\* assets - current liabilities, the alerts hold the low-liquidity alert iff
\* current_ratio < 1.0 and the negative-working-capital alert iff
\* working_capital < 0, and the strengths hold the excellent-liquidity entry
\* iff current_ratio >= 2.0.
C23_LiquidityRatios ==
    EngineRanOnBalanco =>
        LET bal == credit_analysis.balanco IN
        /\ ((\E k \in LiquidityFigures : k \notin DOMAIN bal \/ IsNegative(bal, k)) =>
               /\ IsError(financial_ratios)
               /\ ErrorKind(financial_ratios) = "liquidity_failed"
               /\ "liquidity" \notin DOMAIN financial_ratios)
        /\ (IsSuccess(financial_ratios) =>
               LET l == financial_ratios.liquidity IN
               /\ l.ratios.quick_ratio = l.ratios.current_ratio
               /\ l.ratios.working_capital =
                     Figure(bal, "ativo_circulante") - Figure(bal, "passivo_circulante")
               /\ HasNote(l.alerts, "Liquidez corrente baixa") <=> (l.ratios.current_ratio < 10000)
               /\ HasNote(l.alerts, "Capital de giro negativo") <=> (l.ratios.working_capital < 0)
               /\ HasNote(l.strengths, "Liquidez corrente excelente")
                     <=> (l.ratios.current_ratio >= 20000))

\* a current ratio of exactly 2.0: the strength and no alert
C23_Witness ==
    /\ EngineRanOnBalanco /\ IsSuccess(financial_ratios)
    /\ financial_ratios.liquidity.ratios.current_ratio = 20000
    /\ financial_ratios.liquidity.alerts = << >>
    /\ HasNote(financial_ratios.liquidity.strengths, "Liquidez corrente excelente")

\* the income statement as it was given: the raw input's in a pipeline run,
\* the extracted data's in a direct call of the engine
GivenDre ==
    IF entry = "extract_financial_data_tool" THEN InputDre(duplicata_json)
    ELSE Get(credit_analysis, "dre", EmptyDict)

\* operating profit, or net profit when the income statement has no operating profit
CoverageProfit(dre) ==
    IF "lucro_operacional" \in DOMAIN dre /\ ToString(dre["lucro_operacional"]) # ToString(None)
    THEN dre["lucro_operacional"]
    ELSE Figure(dre, "lucro_liquido")

\* x, in hundredths, is profit / (0.10 * liabilities) rounded to 4 and then to 2 decimals
IsCoverage(x, profit, liabilities) ==
    IsNum(x) /\ 200 * Abs(x.num * liabilities - 1000 * profit) <= 101 * liabilities

\* C24: interest coverage is operating profit / (10% of total liabilities),
\* with net profit as the numerator whenever operating profit is absent from
\* the income statement, in a direct call of the engine and in a pipeline run
\* on a raw input that omits operating profit alike; when the estimated
\* interest is 0 it is the marker "inf" if the profit is > 0 and 0.0 otherwise.
C24_InterestCoverage ==
    DebtReported =>
        LET profit == CoverageProfit(GivenDre)
            liabilities == Figure(credit_analysis.balanco, "passivo_total")
            coverage == financial_ratios.debt.ratios.interest_coverage
        IN  /\ liabilities > 0 => IsCoverage(coverage, profit, liabilities)
            /\ (liabilities = 0 /\ profit > 0) => coverage = StrInf
            /\ (liabilities = 0 /\ profit <= 0) => coverage = Num(0)


\* the interpretation begins with "Excelente"
ExcellentLeverage == {"Excelente - Baixa alavancagem", "Excelente - Baixo endividamento"}

\* C25: whenever equity is non-positive and total assets are > 0,
\* calculate_debt_ratios reports equity_multiplier as the unbounded marker with
\* the CRITICO interpretation and a solvency alert, and never as a number
\* interpreted as "Excelente".
C25_NonPositiveEquityUnbounded ==
    DebtReported =>
        LET bal == credit_analysis.balanco
            debt == financial_ratios.debt
        IN  (Figure(bal, "patrimonio_liquido") <= 0 /\ Figure(bal, "ativo_total") > 0) =>
                /\ debt.ratios.equity_multiplier = StrInf
                /\ debt.interpretation.equity_multiplier = CriticalEquity
                /\ HasNote(debt.alerts,
                           "Patrimonio liquido zero ou negativo - atencao para solvencia")
                /\ debt.interpretation.equity_multiplier \notin ExcellentLeverage

DecisionRank(d) ==
    IF d = "NEGAR" THEN 0 ELSE IF d = "REVISAR" THEN 1
    ELSE IF d = "APROVAR COM RESSALVAS" THEN 2 ELSE 3

\* the decision generate_complete_report returns for the inputs of this run
\* with the two scores replaced
DecisionAt(risk_score, health_score) ==
    generate_complete_report([credit_analysis EXCEPT !.risk_score = risk_score],
                             [financial_ratios EXCEPT !.financial_health_score = health_score],
                             CHOOSE now \in Clock : TRUE).final_decision

\* C27: the decision matrix is monotone: with NEGAR < REVISAR < APROVAR COM
\* RESSALVAS < APROVAR, raising risk_score with health_score fixed, or
\* health_score with risk_score fixed, never yields a strictly worse decision.
C27_DecisionMonotone ==
    (ReportRan /\ BothScored) =>
        LET r == credit_analysis.risk_score
            h == financial_ratios.financial_health_score
            d == final_report.final_decision
        IN  /\ \A r2 \in RiskScores :
                  r2 >= r => DecisionRank(DecisionAt(r2, h)) >= DecisionRank(d)
            /\ \A h2 \in HealthScores :
                  h2 >= h => DecisionRank(DecisionAt(r, h2)) >= DecisionRank(d)

\* a risk score of 5.0 beside a health score just below 6.0 is reviewed; a
\* higher health score improves the decision, a higher risk score alone keeps
\* it, and both together improve it further
C27_Witness ==
    /\ ReportRan /\ BothScored
    /\ credit_analysis.risk_score = 50
    /\ financial_ratios.financial_health_score = 599
    /\ final_report.final_decision = "REVISAR"
    /\ DecisionAt(50, 600) = "APROVAR COM RESSALVAS"
    /\ DecisionAt(70, 599) = "REVISAR"
    /\ DecisionAt(70, 800) = "APROVAR"

\* the Extractor's success payload has a red flag of severity CRITICAL
CriticalFlagged ==
    \E i \in DOMAIN credit_analysis.derived_metrics.calculated_red_flags :
        credit_analysis.derived_metrics.calculated_red_flags[i].severity = "CRITICAL"

\* the decision of the Assembler when the credit_analyzer agent carries the
\* given risk score unchanged and the engine reports the given health score
DecisionCarrying(risk_score, health_score) ==
    generate_complete_report(AgentAnalysis(risk_score),
                             [SampleRatios EXCEPT !.financial_health_score = health_score],
                             CHOOSE now \in Clock : TRUE).final_decision

\* C28: whenever the Extractor emits a CRITICAL red flag (current ratio below
\* 0.8, zero or missing current assets beside zero or missing current
\* liabilities included), its risk level is ALTO, and with its risk score
\* carried unchanged as the Assembler's risk_score the final decision is NEGAR
\* for every health score: no run with a CRITICAL flag ends in APROVAR,
\* APROVAR COM RESSALVAS or REVISAR.
C28_CriticalMeansDenied ==
    (ExtractorRan /\ IsSuccess(credit_analysis)) =>
        /\ CriticalFlagged <=> RatLt(credit_analysis.derived_metrics.liquidez_corrente, 8, 10)
        /\ CriticalFlagged =>
              /\ credit_analysis.risk_analysis.level = "ALTO"
              /\ \A h \in HealthScores :
                    DecisionCarrying(credit_analysis.risk_analysis.score, h) = "NEGAR"
              /\ Get(final_report, "final_decision", "none")
                    \notin {"APROVAR", "APROVAR COM RESSALVAS", "REVISAR"}

\* no current assets and no current liabilities in the input: a CRITICAL flag
\* on a company whose other components add up to 7.0, denied at the best
\* health score
C28_Witness ==
    /\ ExtractorRan /\ IsSuccess(credit_analysis)
    /\ DOMAIN InputBalanco(duplicata_json) \cap LiquidityFigures = {}
    /\ CriticalFlagged
    /\ credit_analysis.balanco["patrimonio_liquido"] > 0
    /\ credit_analysis.dre["lucro_liquido"] > 0
    /\ credit_analysis.historico.atrasos = 0
    /\ credit_analysis.risk_analysis.score = 35
    /\ credit_analysis.risk_analysis.level = "ALTO"
    /\ DecisionCarrying(35, MaxHealthScore) = "NEGAR"

\* Excelente > Bom > Adequado > Abaixo do esperado
StatusRank(status) ==
    IF status = "Excelente" THEN 3 ELSE IF status = "Bom" THEN 2
    ELSE IF status = "Adequado" THEN 1 ELSE 0

\* debt ratios 0.00, 0.05, ... 1.00, in units of 10^-4
LowerDebtRatios(d) == {r \in {500 * i : i \in 0..20} : r < d}

\* C29: the status given to debt_ratio, by the interpretation of
\* calculate_debt_ratios and by debt_to_assets of compare_with_benchmarks,
\* never improves as debt_ratio rises: a lower debt ratio has a status at least
\* as good, in the order Excelente > Bom > Adequado > Abaixo do esperado; and a
\* debt ratio with the alert "Endividamento elevado" (above 0.70) is never
\* classified Excelente.
C29_DebtStatusMonotone ==
    DebtReported =>
        LET d == financial_ratios.debt.ratios.debt_ratio
            interp == financial_ratios.debt.interpretation.debt_ratio
            status == financial_ratios.benchmark_comparison.benchmarks.debt_to_assets.status
        IN  /\ \A d1 \in LowerDebtRatios(d) :
                  /\ StatusRank(_interpret(d1, BENCHMARKS.debt.debt_ratio)) >= StatusRank(interp)
                  /\ StatusRank(_interpret(d1, BENCHMARKS.debt.debt_ratio)) >= StatusRank(status)
            /\ HasNote(financial_ratios.debt.alerts, "Endividamento elevado") =>
                  /\ d > 7000
                  /\ interp # "Excelente"
                  /\ status # "Excelente"

\* the Extractor's success payload has a red flag of category LIQUIDITY
LiquidityFlagged ==
    \E i \in DOMAIN credit_analysis.derived_metrics.calculated_red_flags :
        credit_analysis.derived_metrics.calculated_red_flags[i].category = "LIQUIDITY"

\* C30: the two stages agree on low liquidity: for every success payload of
\* the Extractor with non-negative current assets and current liabilities,
\* derived_metrics has a LIQUIDITY red flag (liquidez_corrente < 1.0) if and
\* only if calculate_liquidity_ratios, run on that payload, emits the
\* low-current-ratio alert (current_ratio < 1.0).
C30_StagesAgreeOnLowLiquidity ==
    (ExtractorRan /\ IsSuccess(credit_analysis) /\ RatiosRan /\ IsSuccess(financial_ratios)) =>
        ((credit_analysis.balanco["ativo_circulante"] >= 0
          /\ credit_analysis.balanco["passivo_circulante"] >= 0) =>
            (LiquidityFlagged
                <=> HasNote(financial_ratios.liquidity.alerts, "Liquidez corrente baixa")))

====
